---- MODULE Spec2Model ----
(***************************************************************************)
(* Model of the lemma/root/form index of roots/backend/app.py: the build   *)
(* (_build_similarity_engine), the containment engine                      *)
(* (_find_related_verses behind /api/related) and the boolean search       *)
(* (/api/search-words).  The routes are served one request at a time       *)
(* (SpecRelated, SpecSearch, SpecService) or by two threads whose handlers *)
(* interleave (SpecThreads); SpecBuild is the build alone.  SpecRoots is   *)
(* /api/related over corpora with two roots, SpecPositions the word        *)
(* positions of a search result, SpecContext /api/context over the verses  *)
(* table and SpecGlosses the word_glosses cache behind /api/verse.         *)
(*                                                                         *)
(* Tokens are Buckwalter strings; "" stands for both NULL and the empty    *)
(* string, which every query of app.py treats alike.  IDF values are       *)
(* fixed-point numbers in thousandths (math.log by table); weights that    *)
(* carry ROOT_DISCOUNT = 0.5 are held in two-thousandths so that the half  *)
(* is exact.                                                               *)
(***************************************************************************)
EXTENDS Integers, Sequences, FiniteSets, TLC

\* ------------------------------------------------------------------ bounds
MaxRows == 4         \* morphology rows of a related-verses corpus
MaxLimit == 2        \* the largest limit argument below the caps
MaxSearchRows == 2   \* morphology rows of a search corpus
MaxTerms == 2        \* terms per search request
MaxServiceRows == 3  \* morphology rows of a corpus served by both routes
MaxBuildRows == 3    \* morphology rows of a corpus built record by record
MaxRootRows == 4     \* morphology rows of a corpus of two lemmas and two roots
MaxPositionRows == 3 \* morphology rows of a corpus of verses of two words
MaxVerses == 8       \* verses of a surah of the verses table
MaxGlossVerses == 2  \* verses of the surah whose word glosses are asked for
MaxWords == 2        \* words in an answer of the Quran.com API

\* ------------------------------------------------------- program constants
RELATED_LIMIT_CAP == 25      \* get_related_verses: max(1, min(limit, 25))
SEARCH_LIMIT_CAP == 50       \* search_words: min(max(1, limit), 50)
SEARCH_LIMIT_DEFAULT == 25   \* search_words: body.get("limit", 25)
CONTEXT_SIZE == 6            \* get_context: context_size = 6
CONTEXT_BEFORE == 3          \* get_context: before = 3
CONTEXT_AFTER == 3           \* get_context: after = 3

VARIABLES
    morphology,        \* the morphology table of quran.db: a set of rows
    started,           \* FALSE until _build_similarity_engine() has run at import
    _lemma_idf, _root_idf, _form_idf,
    _verse_lemmas, _verse_roots,
    _lemma_inv, _root_inv, _form_inv,
    _lemma_roots, _root_arabic_map,
    response,          \* the response of the request being served, until it is sent
    inflight,          \* per request thread: the handler's position and local variables
    verses,            \* the verses table of quran.db: a set of (chapter, verse)
    word_glosses       \* the word_glosses cache table: a set of rows

index == <<_lemma_idf, _root_idf, _form_idf, _verse_lemmas, _verse_roots,
           _lemma_inv, _root_inv, _form_inv, _lemma_roots, _root_arabic_map>>
vars == <<morphology, started, _lemma_idf, _root_idf, _form_idf, _verse_lemmas,
          _verse_roots, _lemma_inv, _root_inv, _form_inv, _lemma_roots,
          _root_arabic_map, response, inflight, verses, word_glosses>>

\* the tables of quran.db that the index is not built from
tables == <<verses, word_glosses>>

\* ----------------------------------------------------------------- helpers
EmptyDict == [k \in {} |-> {}]

\* dict.get(k, default)
Get(d, k, default) == IF k \in DOMAIN d THEN d[k] ELSE default

RECURSIVE SumOver(_, _, _)
\* sum(d.get(x, 0) for x in S)
SumOver(d, S, default) ==
    IF S = {} THEN 0
    ELSE LET x == CHOOSE y \in S : TRUE
         IN  Get(d, x, default) + SumOver(d, S \ {x}, default)

\* every order in which Python may iterate over the set S
Orderings(S) ==
    {s \in [1..Cardinality(S) -> S] : \A i, j \in 1..Cardinality(S) : s[i] = s[j] => i = j}

Min(a, b) == IF a <= b THEN a ELSE b
Max(a, b) == IF a >= b THEN a ELSE b

\* 1000 * ln(n) for n = 1..10
LnTable == <<0, 693, 1099, 1386, 1609, 1792, 1946, 2079, 2197, 2303>>

\* math.log(total_verses / df), in thousandths
Log(total, df) == LnTable[total] - LnTable[df]

\* ------------------------------------------------------ the corpus supplier
BUCKWALTER_TO_ARABIC == [k |-> "U+0643", m |-> "U+0645"]

\* seed_db.parse_morphology: root_arabic = space_root(buckwalter_to_arabic(root_bw))
RootArabic(rbw) == IF rbw = "" THEN "" ELSE BUCKWALTER_TO_ARABIC[rbw]

MorphRow(ch, v, pos, lbw, rbw, fbw) ==
    [chapter |-> ch, verse |-> v, word_pos |-> pos, lemma_buckwalter |-> lbw,
     root_buckwalter |-> rbw, root_arabic |-> RootArabic(rbw), form_buckwalter |-> fbw]

\* verses of the related-verses corpora: those of surah 1 and the first of surah 2
RelatedKeys == {<<1, a>> : a \in 1..4} \cup {<<2, 1>>}

RelatedRows ==
    {MorphRow(key[1], key[2], 1, lr[1], lr[2], "k") :
        key \in RelatedKeys,
        lr \in ({"", "k", "m"} \X {"", "k"}) \ {<<"", "">>}}

SearchKeys == {<<1, 1>>, <<1, 2>>}

SearchRows ==
    {MorphRow(key[1], key[2], 1, t[1], t[2], t[3]) :
        key \in SearchKeys,
        t \in ({"", "k"} \X {"", "k"} \X {"", "k"}) \ {<<"", "", "">>}}

\* verses of the corpora served by both routes: two of surah 1 outside each other's
\* window and one of surah 2
ServiceKeys == {<<1, 1>>, <<1, 4>>, <<2, 1>>}

\* a word with lemma, root and form; a word with a lemma and no root; a word with a
\* root and no lemma; a particle, which has only its form
ServiceRows ==
    {MorphRow(key[1], key[2], 1, t[1], t[2], t[3]) :
        key \in ServiceKeys,
        t \in {<<"k", "k", "k">>, <<"m", "", "m">>, <<"", "k", "k">>, <<"", "", "k">>}}

\* words of two verses with any of two lemmas and two roots, or neither
BuildRows ==
    {MorphRow(key[1], key[2], 1, lr[1], lr[2], "k") :
        key \in SearchKeys, lr \in {"", "k", "m"} \X {"", "k", "m"}}

\* verses of the corpora of two roots: two of surah 1 inside each other's window and
\* one of surah 2
RootKeys == {<<1, 1>>, <<1, 3>>, <<2, 1>>}

\* words with one of two lemmas and no root or one of two roots (a lemma may come
\* with either root), and a word with a root and no lemma
RootRows ==
    {MorphRow(key[1], key[2], 1, lr[1], lr[2], "k") :
        key \in RootKeys,
        lr \in ({"k", "m"} \X {"", "k", "m"}) \cup {<<"", "k">>}}

\* segments at the first or second word of two verses, the token "k" as their lemma,
\* their root, their form, or all three
PositionRows ==
    {MorphRow(key[1], key[2], pos, t[1], t[2], t[3]) :
        key \in SearchKeys, pos \in 1..2,
        t \in {<<"k", "m", "m">>, <<"m", "k", "m">>, <<"m", "m", "k">>, <<"k", "k", "k">>}}

\* seed_db.create_db: one of `rows`, a row of the parsed corpus, goes into the
\* morphology table (at most `cap` rows in all)
InsertMorphology(rows, cap) ==
    /\ ~started
    /\ Cardinality(morphology) < cap
    /\ \E row \in rows \ morphology : morphology' = morphology \cup {row}
    /\ UNCHANGED <<started, index, response, inflight, tables>>

\* ----------------------------------------------------------- index builder
\* Query 1: SELECT DISTINCT chapter, verse, lemma_buckwalter ... non-empty
lemma_rows ==
    {<<r.chapter, r.verse, r.lemma_buckwalter>> :
        r \in {x \in morphology : x.lemma_buckwalter # ""}}

\* Query 2: SELECT DISTINCT chapter, verse, root_buckwalter, root_arabic ... non-empty
root_rows ==
    {<<r.chapter, r.verse, r.root_buckwalter, r.root_arabic>> :
        r \in {x \in morphology : x.root_buckwalter # ""}}

\* Query 3: SELECT DISTINCT lemma_buckwalter, root_buckwalter ... both non-empty
lr_rows ==
    {<<r.lemma_buckwalter, r.root_buckwalter>> :
        r \in {x \in morphology : x.lemma_buckwalter # "" /\ x.root_buckwalter # ""}}

\* Query 4: SELECT DISTINCT chapter, verse, form_buckwalter ... non-empty
form_rows ==
    {<<r.chapter, r.verse, r.form_buckwalter>> :
        r \in {x \in morphology : x.form_buckwalter # ""}}

\* verse_lemma_sets / verse_root_sets: (ch, v) -> set of tokens, from rows <<ch, v, tok, ...>>
VerseSets(rows) ==
    [key \in {<<r[1], r[2]>> : r \in rows} |->
        {r[3] : r \in {x \in rows : <<x[1], x[2]>> = key}}]

\* the index with "inv[tok] = {key}" for "inv[tok].add(key)": one verse per token
InvertedAssigned(verseSets) ==
    [tok \in UNION {verseSets[key] : key \in DOMAIN verseSets} |->
        {CHOOSE key \in DOMAIN verseSets : tok \in verseSets[key]}]

\* the inverted index filled from the per-verse sets: token -> set of (ch, v)
Inverted(verseSets) ==
    [tok \in UNION {verseSets[key] : key \in DOMAIN verseSets} |->
        {key \in DOMAIN verseSets : tok \in verseSets[key]}]

\* lemma_doc_freq / root_doc_freq: one increment per verse whose set holds the token
DocFreq(verseSets) ==
    [tok \in UNION {verseSets[key] : key \in DOMAIN verseSets} |->
        Cardinality({key \in DOMAIN verseSets : tok \in verseSets[key]})]

\* form_doc_freq: one increment per row of Query 4
FormDocFreq ==
    [fbw \in {r[3] : r \in form_rows} |-> Cardinality({r \in form_rows : r[3] = fbw})]

\* _form_inv: one add per row of Query 4
FormInverted ==
    [fbw \in {r[3] : r \in form_rows} |->
        {<<r[1], r[2]>> : r \in {x \in form_rows : x[3] = fbw}}]

\* the two profile maps counted one after the other, a verse in both counted twice
TotalVersesSum(verseLemmas, verseRoots) ==
    Cardinality(DOMAIN verseLemmas) + Cardinality(DOMAIN verseRoots)

\* total_verses = len(set(list(_verse_lemmas.keys()) + list(_verse_roots.keys())))
TotalVerses(verseLemmas, verseRoots) ==
    Cardinality(DOMAIN verseLemmas \cup DOMAIN verseRoots)

\* {tok: math.log(total_verses / df) for tok, df in doc_freq.items()}
IdfTable(docFreq, total) == [tok \in DOMAIN docFreq |-> Log(total, docFreq[tok])]

\* _lemma_roots[lemma].add(root) for each row of Query 3
LemmaRoots ==
    [lbw \in {r[1] : r \in lr_rows} |-> {r[2] : r \in {x \in lr_rows : x[1] = lbw}}]

\* _root_arabic_map[rbw] = row["root_arabic"]: the last row of Query 2 with that root
\* wins, and the row order of the query is not fixed
RootArabicMaps ==
    {m \in [{r[3] : r \in root_rows} -> {r[4] : r \in root_rows}] :
        \A rbw \in DOMAIN m : \E r \in root_rows : r[3] = rbw /\ r[4] = m[rbw]}

\* lines 100-153 of _build_similarity_engine: the profiles, the inverted indices, the
\* two maps and the idf tables
BuildIndex ==
    LET verse_lemma_sets == VerseSets(lemma_rows)
        verse_root_sets == VerseSets(root_rows)
        total_verses == TotalVerses(verse_lemma_sets, verse_root_sets)
    IN  /\ _verse_lemmas' = verse_lemma_sets
        /\ _lemma_inv' = Inverted(verse_lemma_sets)
        /\ _verse_roots' = verse_root_sets
        /\ _root_inv' = Inverted(verse_root_sets)
        /\ _root_arabic_map' \in RootArabicMaps
        /\ _lemma_roots' = LemmaRoots
        /\ _form_inv' = FormInverted
        /\ _lemma_idf' = IdfTable(DocFreq(verse_lemma_sets), total_verses)
        /\ _root_idf' = IdfTable(DocFreq(verse_root_sets), total_verses)
        /\ _form_idf' = IdfTable(FormDocFreq, total_verses)

\* the build with the form index filled before the test for an empty corpus
BuildFormsBeforeReturn ==
    /\ ~started
    /\ started' = TRUE
    /\ UNCHANGED <<morphology, response, inflight, tables>>
    /\ IF lemma_rows = {} /\ root_rows = {}
       THEN /\ _form_inv' = FormInverted
            /\ UNCHANGED <<_lemma_idf, _root_idf, _form_idf, _verse_lemmas, _verse_roots,
                           _lemma_inv, _root_inv, _lemma_roots, _root_arabic_map>>
       ELSE BuildIndex

\* _build_similarity_engine(), run once when app.py is imported
Build ==
    /\ ~started
    /\ started' = TRUE
    /\ UNCHANGED <<morphology, response, inflight, tables>>
    /\ IF lemma_rows = {} /\ root_rows = {}
       THEN UNCHANGED index
       ELSE BuildIndex

\* ------------------------------------- the build, record by record
\* the WHERE clauses of the four queries
HasLemma(r) == r.lemma_buckwalter # ""
HasRoot(r) == r.root_buckwalter # ""
HasLemmaAndRoot(r) == r.lemma_buckwalter # "" /\ r.root_buckwalter # ""
HasForm(r) == r.form_buckwalter # ""

RECURSIVE Distinct(_)
\* SELECT DISTINCT: each value once, where it is first met
Distinct(seq) ==
    IF Len(seq) = 0 THEN <<>>
    ELSE LET front == Distinct(SubSeq(seq, 1, Len(seq) - 1))
             last == seq[Len(seq)]
         IN  IF \E i \in 1..Len(front) : front[i] = last THEN front
             ELSE Append(front, last)

\* d[k] = {x}: the set replaced, not extended
AddToAssigned(d, k, x) ==
    [kk \in DOMAIN d \cup {k} |-> IF kk = k THEN {x} ELSE d[kk]]

\* d[k].add(x) on a defaultdict(set)
AddTo(d, k, x) ==
    [kk \in DOMAIN d \cup {k} |-> IF kk = k THEN Get(d, k, {}) \cup {x} ELSE d[kk]]

\* d[k] += 1 on a defaultdict(int)
Incr(d, k) ==
    [kk \in DOMAIN d \cup {k} |-> IF kk = k THEN Get(d, k, 0) + 1 ELSE d[kk]]

\* d[k] = x
Assign(d, k, x) ==
    [kk \in DOMAIN d \cup {k} |-> IF kk = k THEN x ELSE d[kk]]

RECURSIVE AddAll(_)
\* for <<k, x>> in pairs: d[k].add(x), from an empty defaultdict(set)
AddAll(pairs) ==
    IF Len(pairs) = 0 THEN EmptyDict
    ELSE AddTo(AddAll(SubSeq(pairs, 1, Len(pairs) - 1)),
               pairs[Len(pairs)][1], pairs[Len(pairs)][2])

RECURSIVE CountAll(_)
\* for k in keys: d[k] += 1, from an empty defaultdict(int)
CountAll(keys) ==
    IF Len(keys) = 0 THEN EmptyDict
    ELSE Incr(CountAll(SubSeq(keys, 1, Len(keys) - 1)), keys[Len(keys)])

RECURSIVE AssignAll(_)
\* for <<k, x>> in pairs: d[k] = x, from an empty dict
AssignAll(pairs) ==
    IF Len(pairs) = 0 THEN EmptyDict
    ELSE Assign(AssignAll(SubSeq(pairs, 1, Len(pairs) - 1)),
                pairs[Len(pairs)][1], pairs[Len(pairs)][2])

\* the ten structures, all empty, in the order of `index`
EmptyIndex ==
    <<EmptyDict, EmptyDict, EmptyDict, EmptyDict, EmptyDict,
      EmptyDict, EmptyDict, EmptyDict, EmptyDict, EmptyDict>>

\* _build_similarity_engine() on a morphology table whose rows are met in the order
\* `records`: the value of `index` it leaves.  The nested loops over
\* verse_lemma_sets (verse_root_sets) visit each (verse, token) pair of Query 1
\* (Query 2) once.
BuildInOrder(records) ==
    LET lq == SelectSeq(records, HasLemma)
        rq == SelectSeq(records, HasRoot)
        lrq == SelectSeq(records, HasLemmaAndRoot)
        fq == SelectSeq(records, HasForm)
        lemma_q == Distinct([i \in 1..Len(lq) |->
                       <<lq[i].chapter, lq[i].verse, lq[i].lemma_buckwalter>>])
        root_q == Distinct([i \in 1..Len(rq) |->
                      <<rq[i].chapter, rq[i].verse, rq[i].root_buckwalter,
                        rq[i].root_arabic>>])
        lr_q == Distinct([i \in 1..Len(lrq) |->
                    <<lrq[i].lemma_buckwalter, lrq[i].root_buckwalter>>])
        form_q == Distinct([i \in 1..Len(fq) |->
                      <<fq[i].chapter, fq[i].verse, fq[i].form_buckwalter>>])
        \* the (verse, root) pairs of Query 2, each once
        root_pairs == Distinct([i \in 1..Len(root_q) |->
                          <<root_q[i][1], root_q[i][2], root_q[i][3]>>])
        verse_lemma_sets ==
            AddAll([i \in 1..Len(lemma_q) |->
                       <<(<<lemma_q[i][1], lemma_q[i][2]>>), lemma_q[i][3]>>])
        lemma_inv ==
            AddAll([i \in 1..Len(lemma_q) |->
                       <<lemma_q[i][3], (<<lemma_q[i][1], lemma_q[i][2]>>)>>])
        lemma_doc_freq == CountAll([i \in 1..Len(lemma_q) |-> lemma_q[i][3]])
        verse_root_sets ==
            AddAll([i \in 1..Len(root_q) |->
                       <<(<<root_q[i][1], root_q[i][2]>>), root_q[i][3]>>])
        root_arabic_map ==
            AssignAll([i \in 1..Len(root_q) |-> <<root_q[i][3], root_q[i][4]>>])
        root_inv ==
            AddAll([i \in 1..Len(root_pairs) |->
                       <<root_pairs[i][3], (<<root_pairs[i][1], root_pairs[i][2]>>)>>])
        root_doc_freq == CountAll([i \in 1..Len(root_pairs) |-> root_pairs[i][3]])
        lemma_roots == AddAll(lr_q)
        form_inv ==
            AddAll([i \in 1..Len(form_q) |->
                       <<form_q[i][3], (<<form_q[i][1], form_q[i][2]>>)>>])
        form_doc_freq == CountAll([i \in 1..Len(form_q) |-> form_q[i][3]])
        total_verses == TotalVerses(verse_lemma_sets, verse_root_sets)
    IN  IF Len(lemma_q) = 0 /\ Len(root_q) = 0
        THEN EmptyIndex
        ELSE <<IdfTable(lemma_doc_freq, total_verses),
               IdfTable(root_doc_freq, total_verses),
               IdfTable(form_doc_freq, total_verses),
               verse_lemma_sets, verse_root_sets,
               lemma_inv, root_inv, form_inv,
               lemma_roots, root_arabic_map>>

\* the build at import, the rows of the morphology table met in some order
BuildRecords ==
    /\ ~started
    /\ started' = TRUE
    /\ UNCHANGED <<morphology, response, inflight, tables>>
    /\ \E records \in Orderings(morphology) :
          LET built == BuildInOrder(records)
          IN  /\ _lemma_idf' = built[1] /\ _root_idf' = built[2] /\ _form_idf' = built[3]
              /\ _verse_lemmas' = built[4] /\ _verse_roots' = built[5]
              /\ _lemma_inv' = built[6] /\ _root_inv' = built[7] /\ _form_inv' = built[8]
              /\ _lemma_roots' = built[9] /\ _root_arabic_map' = built[10]

NoResponse == [kind |-> "none"]

\* an exception leaves the handler: the request ends without a result
Raised(exception) == [kind |-> "error", exception |-> exception]

\* the response goes out to the client and the server is idle again
SendResponse ==
    /\ response # NoResponse
    /\ response' = NoResponse
    /\ UNCHANGED <<morphology, started, index, inflight, tables>>

\* ------------------------------------------------ containment similarity
\* a ratio of two weights, kept exact: num / den with den > 0
Frac(n, d) == IF d < 0 THEN [num |-> -n, den |-> -d] ELSE [num |-> n, den |-> d]
FracLess(x, y) == x.num * y.den < y.num * x.den
FracEq(x, y) == x.num * y.den = y.num * x.den
FracOne == [num |-> 1, den |-> 1]
FracZero == [num |-> 0, den |-> 1]

\* round(x, 3) of a ratio, in thousandths
Round3(x) == (2000 * x.num + x.den) \div (2 * x.den)

\* the window with range(-2, 2): the verse two after the query is let through
AdjacentShortRange(surah, ayah) == {<<surah, ayah + d>> : d \in -2..1}

\* adjacent = {(surah, ayah + d) for d in range(-2, 3)}
Adjacent(surah, ayah) == {<<surah, ayah + d>> : d \in -2..2}

\* the candidates gathered through the lemma index alone
CandidatesLemmaOnly(query_key, query_lemmas, query_roots) ==
    (UNION {Get(_lemma_inv, lbw, {}) : lbw \in query_lemmas} \ {query_key})
        \ Adjacent(query_key[1], query_key[2])

\* candidates: verses sharing a lemma or a root with the query, minus the query
\* verse and its neighbours
Candidates(query_key, query_lemmas, query_roots) ==
    ((UNION {Get(_lemma_inv, lbw, {}) : lbw \in query_lemmas}
      \cup UNION {Get(_root_inv, rbw, {}) : rbw \in query_roots})
     \ {query_key}) \ Adjacent(query_key[1], query_key[2])

\* covered_roots: roots already covered by the shared lemmas
CoveredRoots(shared_lemmas) == UNION {Get(_lemma_roots, lbw, {}) : lbw \in shared_lemmas}

\* the shared roots with "- covered_roots" left out
ExtraSharedRootsUncovered(cand_roots, query_roots, shared_lemmas) ==
    cand_roots \cap query_roots

\* extra_shared_roots = (cand_roots & query_roots) - covered_roots
ExtraSharedRoots(cand_roots, query_roots, shared_lemmas) ==
    (cand_roots \cap query_roots) \ CoveredRoots(shared_lemmas)

\* ROOT_DISCOUNT applied to the whole sum, lemmas included
SharedWeightAllDiscounted(shared_lemmas, extra_shared_roots) ==
    SumOver(_lemma_idf, shared_lemmas, 0) + SumOver(_root_idf, extra_shared_roots, 0)

\* shared_weight = sum of lemma idf + ROOT_DISCOUNT * sum of extra root idf,
\* in two-thousandths
SharedWeight(shared_lemmas, extra_shared_roots) ==
    2 * SumOver(_lemma_idf, shared_lemmas, 0) + SumOver(_root_idf, extra_shared_roots, 0)

\* the total as len(cand_lemmas): every lemma at weight 1
CandTotalUnweighted(cand_lemmas) == 2000 * Cardinality(cand_lemmas)

\* cand_total = sum(_lemma_idf.get(lbw, 0) for lbw in cand_lemmas), in two-thousandths
CandTotal(cand_lemmas) == 2 * SumOver(_lemma_idf, cand_lemmas, 0)

\* the ratio without the min(..., 1.0)
ContainmentUncapped(shared_weight, cand_total) == Frac(shared_weight, cand_total)

\* containment = min(shared_weight / cand_total, 1.0)
Containment(shared_weight, cand_total) ==
    LET q == Frac(shared_weight, cand_total)
    IN  IF FracLess(FracOne, q) THEN FracOne ELSE q

\* all_shared_roots: roots of the shared lemmas that the candidate has, plus the extra ones
AllSharedRoots(shared_lemmas, cand_roots, extra_shared_roots) ==
    UNION {Get(_lemma_roots, lbw, {}) \cap cand_roots : lbw \in shared_lemmas}
        \cup extra_shared_roots

Skipped == [kind |-> "skipped"]

\* whether the loop body reaches scored.append for a candidate of these weights
Scorable(shared_weight, cand_total) == shared_weight # 0 /\ cand_total # 0

\* one pass of the loop "for cand_key in candidates": the appended tuple, or Skipped
ScoreCandidate(cand_key, query_lemmas, query_roots) ==
    LET cand_lemmas == Get(_verse_lemmas, cand_key, {})
        cand_roots == Get(_verse_roots, cand_key, {})
        shared_lemmas == cand_lemmas \cap query_lemmas
        extra_shared_roots == ExtraSharedRoots(cand_roots, query_roots, shared_lemmas)
        shared_weight == SharedWeight(shared_lemmas, extra_shared_roots)
        cand_total == CandTotal(cand_lemmas)
    IN  IF cand_lemmas = {} THEN Skipped
        ELSE IF ~Scorable(shared_weight, cand_total) THEN Skipped
        ELSE IF cand_total = 0 THEN Raised("ZeroDivisionError")
        ELSE [kind |-> "scored",
              containment |-> Containment(shared_weight, cand_total),
              shared_weight |-> shared_weight,
              cand_key |-> cand_key,
              all_shared_roots |->
                  AllSharedRoots(shared_lemmas, cand_roots, extra_shared_roots)]

IsScored(e) == e.kind = "scored"

\* the key without the minus signs: ascending instead of descending
RelatedKeyLessAscending(x, y) ==
    \/ FracLess(x.containment, y.containment)
    \/ /\ FracEq(x.containment, y.containment)
       /\ x.shared_weight < y.shared_weight

\* key=lambda x: (-x[0], -x[1]): whether x's key is strictly smaller than y's
RelatedKeyLess(x, y) ==
    \/ FracLess(y.containment, x.containment)
    \/ /\ FracEq(x.containment, y.containment)
       /\ x.shared_weight > y.shared_weight

RECURSIVE SortRelated(_)
\* scored.sort(...): a stable sort, each element after those whose key is not larger
SortRelated(s) ==
    IF Len(s) <= 1 THEN s
    ELSE LET sorted == SortRelated(SubSeq(s, 1, Len(s) - 1))
             x == s[Len(s)]
             p == Cardinality({i \in 1..Len(sorted) : ~RelatedKeyLess(x, sorted[i])})
         IN  SubSeq(sorted, 1, p) \o <<x>> \o SubSeq(sorted, p + 1, Len(sorted))

\* scored[:limit]; a negative limit counts from the end of the list
Truncate(s, limit) ==
    IF limit >= 0 THEN SubSeq(s, 1, Min(limit, Len(s)))
    ELSE SubSeq(s, 1, Max(0, Len(s) + limit))

\* the function without "if not query_lemmas: return []"
FindRelatedVersesUnguarded(surah, ayah, limit, order) ==
    LET query_key == <<surah, ayah>>
        query_lemmas == Get(_verse_lemmas, query_key, {})
        query_roots == Get(_verse_roots, query_key, {})
        scored == SelectSeq([i \in 1..Len(order) |->
                                ScoreCandidate(order[i], query_lemmas, query_roots)],
                            IsScored)
    IN  Truncate(SortRelated(scored), limit)

\* _find_related_verses(surah, ayah, limit), with the candidates visited in `order`
FindRelatedVerses(surah, ayah, limit, order) ==
    LET query_key == <<surah, ayah>>
        query_lemmas == Get(_verse_lemmas, query_key, {})
        query_roots == Get(_verse_roots, query_key, {})
        scored == SelectSeq([i \in 1..Len(order) |->
                                ScoreCandidate(order[i], query_lemmas, query_roots)],
                            IsScored)
    IN  IF query_lemmas = {} THEN <<>>
        ELSE Truncate(SortRelated(scored), limit)

\* whether the scoring loop raises on a candidate
FindRelatedRaises(query_lemmas, query_roots, order) ==
    /\ query_lemmas # {}
    /\ \E i \in 1..Len(order) :
          ScoreCandidate(order[i], query_lemmas, query_roots).kind = "error"

\* the orders in which _find_related_verses may visit the candidates of a query
CandidateOrders(surah, ayah) ==
    LET query_key == <<surah, ayah>>
    IN  Orderings(Candidates(query_key, Get(_verse_lemmas, query_key, {}),
                             Get(_verse_roots, query_key, {})))

\* the clamp without its floor: min(limit, 25)
ClampRelatedLimitNoFloor(limit) == Min(limit, RELATED_LIMIT_CAP)

\* limit = max(1, min(limit, 25))
ClampRelatedLimit(limit) == Max(1, Min(limit, RELATED_LIMIT_CAP))

\* one entry of the "related" list of the JSON body (verse text and translation,
\* read from tables the index does not use, are left out)
RelatedJson(e) ==
    [surah |-> e.cand_key[1], ayah |-> e.cand_key[2],
     similarity_score |-> Round3(e.containment),
     shared_roots |->
        {[root_arabic |-> Get(_root_arabic_map, rbw, ""), root_buckwalter |-> rbw,
          idf |-> Get(_root_idf, rbw, 0)] : rbw \in e.all_shared_roots}]

\* the response of get_related_verses, as far as the index decides it
RelatedResponse(surah, ayah, limit_arg, limit, results) ==
    [kind |-> "related", surah |-> surah, ayah |-> ayah,
     limit_arg |-> limit_arg, limit |-> limit,
     results |-> results,
     related |-> [i \in 1..Len(results) |-> RelatedJson(results[i])],
     query_lemma_count |-> Cardinality(Get(_verse_lemmas, <<surah, ayah>>, {}))]

RelatedLimitArgs == {-1, 0, MaxLimit, RELATED_LIMIT_CAP + 1}

\* GET /api/related/<surah>:<ayah>?limit=<limit_arg>, for the requests of `keys`
\* and `limit_args`
get_related_verses(keys, limit_args) ==
    /\ started
    /\ response = NoResponse
    /\ \E key \in keys, limit_arg \in limit_args :
          \E order \in CandidateOrders(key[1], key[2]) :
              LET surah == key[1]
                  ayah == key[2]
                  limit == ClampRelatedLimit(limit_arg)
                  results == FindRelatedVerses(surah, ayah, limit, order)
              IN  response' =
                    IF FindRelatedRaises(Get(_verse_lemmas, key, {}),
                                         Get(_verse_roots, key, {}), order)
                    THEN Raised("ZeroDivisionError")
                    ELSE RelatedResponse(surah, ayah, limit_arg, limit, results)
    /\ UNCHANGED <<morphology, started, index, inflight, tables>>

\* --------------------------------------------------------- boolean search
\* Python truth of an optional token: None and "" are false
Truthy(tok) == tok # ""

Unresolved == [search_type |-> "none"]

Resolved(term, search_type, search_key) ==
    [display_arabic |-> term.display_arabic, search_type |-> search_type,
     search_key |-> search_key]

\* the chain with the root tried before the lemma
ResolveTermRootFirst(term) ==
    IF Truthy(term.root_bw) /\ term.root_bw \in DOMAIN _root_inv
    THEN Resolved(term, "root", term.root_bw)
    ELSE IF Truthy(term.lemma_bw) /\ term.lemma_bw \in DOMAIN _lemma_inv
    THEN Resolved(term, "lemma", term.lemma_bw)
    ELSE IF Truthy(term.form_bw) /\ term.form_bw \in DOMAIN _form_inv
    THEN Resolved(term, "form", term.form_bw)
    ELSE Unresolved

\* the chain whose last branch is "elif form_bw:", without the lookup
ResolveTermFormUnchecked(term) ==
    IF Truthy(term.lemma_bw) /\ term.lemma_bw \in DOMAIN _lemma_inv
    THEN Resolved(term, "lemma", term.lemma_bw)
    ELSE IF Truthy(term.root_bw) /\ term.root_bw \in DOMAIN _root_inv
    THEN Resolved(term, "root", term.root_bw)
    ELSE IF Truthy(term.form_bw)
    THEN Resolved(term, "form", term.form_bw)
    ELSE Unresolved

\* the chain whose first branch is "if lemma_bw:", without the lookup
ResolveTermLemmaUnchecked(term) ==
    IF Truthy(term.lemma_bw)
    THEN Resolved(term, "lemma", term.lemma_bw)
    ELSE IF Truthy(term.root_bw) /\ term.root_bw \in DOMAIN _root_inv
    THEN Resolved(term, "root", term.root_bw)
    ELSE IF Truthy(term.form_bw) /\ term.form_bw \in DOMAIN _form_inv
    THEN Resolved(term, "form", term.form_bw)
    ELSE Unresolved

\* the if / elif / elif / else of the loop over the terms
ResolveTerm(term) ==
    IF Truthy(term.lemma_bw) /\ term.lemma_bw \in DOMAIN _lemma_inv
    THEN Resolved(term, "lemma", term.lemma_bw)
    ELSE IF Truthy(term.root_bw) /\ term.root_bw \in DOMAIN _root_inv
    THEN Resolved(term, "root", term.root_bw)
    ELSE IF Truthy(term.form_bw) /\ term.form_bw \in DOMAIN _form_inv
    THEN Resolved(term, "form", term.form_bw)
    ELSE Unresolved

\* every kind read from the lemma index
CandidateSetLemmaIndex(r) == Get(_lemma_inv, r.search_key, {})

\* candidate_sets.append(<the index of the resolved kind>[search_key]); the indices
\* are defaultdict(set), which reads a missing key as the empty set
CandidateSet(r) ==
    IF r.search_type = "lemma" THEN Get(_lemma_inv, r.search_key, {})
    ELSE IF r.search_type = "root" THEN Get(_root_inv, r.search_key, {})
    ELSE Get(_form_inv, r.search_key, {})

\* the candidate sets joined instead of intersected
IntersectAsUnion(candidate_sets) ==
    UNION {candidate_sets[i] : i \in 1..Len(candidate_sets)}

\* "result_set = cs" for "result_set = result_set & cs": the last set alone
IntersectAssigned(candidate_sets) == candidate_sets[Len(candidate_sets)]

RECURSIVE Intersect(_)
\* result_set = candidate_sets[0]; for cs in candidate_sets[1:]: result_set &= cs
Intersect(candidate_sets) ==
    IF Len(candidate_sets) = 1 THEN candidate_sets[1]
    ELSE Intersect(SubSeq(candidate_sets, 1, Len(candidate_sets) - 1))
            \cap candidate_sets[Len(candidate_sets)]

NoVerse == <<>>

\* the query verse left in
RemoveQueryVerseNever(result_set, query_verse) == result_set

\* if query_verse: result_set = result_set - {(surah, ayah)}
RemoveQueryVerse(result_set, query_verse) ==
    IF query_verse # NoVerse THEN result_set \ {query_verse} ELSE result_set

\* the pre-truncation result set of a request whose terms all resolved
ResultSet(resolved, query_verse) ==
    RemoveQueryVerse(Intersect([i \in 1..Len(resolved) |-> CandidateSet(resolved[i])]),
                     query_verse)

\* every kind at full credit, ROOT_DISCOUNT forgotten
TermScoreNoDiscount(r) ==
    IF r.search_type = "lemma" THEN 2 * Get(_lemma_idf, r.search_key, 0)
    ELSE IF r.search_type = "root" THEN 2 * Get(_root_idf, r.search_key, 0)
    ELSE 2 * Get(_form_idf, r.search_key, 0)

\* what one resolved term adds to the score, in two-thousandths
TermScore(r) ==
    IF r.search_type = "lemma" THEN 2 * Get(_lemma_idf, r.search_key, 0)
    ELSE IF r.search_type = "root" THEN Get(_root_idf, r.search_key, 0)
    ELSE Get(_form_idf, r.search_key, 0)

RECURSIVE Score(_)
\* score = 0.0; for r in resolved: score += ...
Score(resolved) ==
    IF Len(resolved) = 0 THEN 0
    ELSE Score(SubSeq(resolved, 1, Len(resolved) - 1)) + TermScore(resolved[Len(resolved)])

\* key=lambda x: -x[0]: whether x's key is strictly smaller than y's
SearchKeyLess(x, y) == x.score > y.score

RECURSIVE SortScored(_)
\* scored.sort(key=lambda x: -x[0]), a stable sort
SortScored(s) ==
    IF Len(s) <= 1 THEN s
    ELSE LET sorted == SortScored(SubSeq(s, 1, Len(s) - 1))
             x == s[Len(s)]
             p == Cardinality({i \in 1..Len(sorted) : ~SearchKeyLess(x, sorted[i])})
         IN  SubSeq(sorted, 1, p) \o <<x>> \o SubSeq(sorted, p + 1, Len(sorted))

\* "score = 0.0" placed before the loop over the result set: the score of a verse
\* is added to those of the verses visited before it
ScoredAccumulated(order, resolved, limit) ==
    Truncate(SortScored([i \in 1..Len(order) |->
                            [score |-> i * Score(resolved), key |-> order[i],
                             matched |-> resolved]]),
             limit)

\* the scored list after the sort and scored[:limit], the result set visited in `order`
Scored(order, resolved, limit) ==
    Truncate(SortScored([i \in 1..Len(order) |->
                            [score |-> Score(resolved), key |-> order[i],
                             matched |-> resolved]]),
             limit)

\* lemma_keys / root_keys / form_keys
KeysOfType(resolved, search_type) ==
    {resolved[i].search_key : i \in {j \in 1..Len(resolved) : resolved[j].search_type = search_type}}

\* the three key sets thrown together: a token of any kind matches a key of any kind
MatchedPositionsAnyKind(key, resolved) ==
    LET keys == {resolved[i].search_key : i \in 1..Len(resolved)}
    IN  {mr.word_pos : mr \in
            {x \in morphology :
                /\ x.chapter = key[1] /\ x.verse = key[2]
                /\ \/ x.lemma_buckwalter \in keys
                   \/ x.root_buckwalter \in keys
                   \/ x.form_buckwalter \in keys}}

\* matched_positions: the word positions of verse `key` with a segment whose lemma,
\* root or form is a key of its own kind
MatchedPositions(key, resolved) ==
    {mr.word_pos : mr \in
        {x \in morphology :
            /\ x.chapter = key[1] /\ x.verse = key[2]
            /\ \/ x.lemma_buckwalter \in KeysOfType(resolved, "lemma")
               \/ x.root_buckwalter \in KeysOfType(resolved, "root")
               \/ x.form_buckwalter \in KeysOfType(resolved, "form")}}

\* round(score, 3) of a score in two-thousandths, in thousandths
RoundScore(score) == IF score >= 0 THEN (score + 1) \div 2 ELSE -((1 - score) \div 2)

\* one entry of the "results" list of the JSON body (verse text and translation left out)
SearchJson(e) ==
    [surah |-> e.key[1], ayah |-> e.key[2], score |-> RoundScore(e.score),
     matched_terms |-> e.matched,
     matched_positions |-> MatchedPositions(e.key, e.matched)]

\* limit = min(max(1, body.get("limit", 25)), 50)
ClampSearchLimit(body) ==
    Min(Max(1, IF body.has_limit THEN body.limit ELSE SEARCH_LIMIT_DEFAULT), SEARCH_LIMIT_CAP)

\* the response of search_words, as far as the index decides it: the status, the
\* keys present in the JSON body (results_present tells whether "results" is one),
\* and the scored list the results are made from
SearchResponse(body, status, terms_used, results_present, scored, total_found) ==
    [kind |-> "search", body |-> body, status |-> status, limit |-> ClampSearchLimit(body),
     terms_used |-> terms_used, results_present |-> results_present,
     scored |-> scored,
     results |-> [i \in 1..Len(scored) |-> SearchJson(scored[i])],
     total_found |-> total_found]

\* the count taken before the query verse is removed
CountOnlyBeforeExclusion(body, resolved, total_found) ==
    SearchResponse(body, 200, resolved, FALSE, <<>>,
                   Cardinality(ResultSet(resolved, NoVerse)))

\* if count_only: return jsonify({"terms_used": resolved, "total_found": total_found})
CountOnly(body, resolved, total_found) ==
    SearchResponse(body, 200, resolved, FALSE, <<>>, total_found)

\* lines 701-781 of search_words: the response once the result set is known, the
\* result set visited in `order`
SearchTail(body, resolved, result_set, order) ==
    LET total_found == Cardinality(result_set)
    IN  IF body.count_only
        THEN CountOnly(body, resolved, total_found)
        ELSE IF result_set = {}
        THEN SearchResponse(body, 200, resolved, TRUE, <<>>, 0)
        ELSE SearchResponse(body, 200, resolved, TRUE,
                            Scored(order, resolved, ClampSearchLimit(body)), total_found)

\* "if not terms": the 400 of a request without terms
NoTermsResponse(body) == SearchResponse(body, 400, <<>>, FALSE, <<>>, 0)

\* the else branch of the loop over the terms: the answer to a term that resolves
\* to nothing
UnresolvedResponse(body) == SearchResponse(body, 200, <<>>, TRUE, <<>>, 0)

\* the test left out: no term list counts as empty
NoTermsNever(terms) == FALSE

\* if not terms
NoTerms(terms) == Len(terms) = 0

\* search_words() on a parsed body, the result set visited in `order`;
\* candidate_sets[0] raises when the loop has appended nothing
SearchWords(body, order) ==
    LET terms == body.terms
        attempts == [i \in 1..Len(terms) |-> ResolveTerm(terms[i])]
        resolved == attempts
    IN  IF NoTerms(terms)
        THEN NoTermsResponse(body)
        ELSE IF \E i \in 1..Len(terms) : attempts[i] = Unresolved
        THEN UnresolvedResponse(body)
        ELSE IF Len(resolved) = 0
        THEN Raised("IndexError")
        ELSE SearchTail(body, resolved, ResultSet(resolved, body.query_verse), order)

\* the orders in which search_words may visit the result set of a request
ResultOrders(body) ==
    LET attempts == [i \in 1..Len(body.terms) |-> ResolveTerm(body.terms[i])]
    IN  IF Len(body.terms) = 0 \/ \E i \in 1..Len(attempts) : attempts[i] = Unresolved
        THEN {<<>>}
        ELSE Orderings(ResultSet(attempts, body.query_verse))

\* the keys of one kind that the loop over the terms reads with inv[key]: those of
\* the terms resolved before the loop ends or returns
Subscripted(body, search_type) ==
    LET attempts == [i \in 1..Len(body.terms) |-> ResolveTerm(body.terms[i])]
        reached == {i \in 1..Len(attempts) : \A j \in 1..i : attempts[j] # Unresolved}
    IN  {attempts[i].search_key : i \in {j \in reached : attempts[j].search_type = search_type}}

\* a defaultdict(set) after d[k] was read for the keys k: a missing key is inserted
\* with an empty set
AfterSubscripts(d, keys) == [k \in DOMAIN d \cup keys |-> Get(d, k, {})]

\* POST /api/search-words, for the request bodies of `bodies`
search_words(bodies) ==
    /\ started
    /\ response = NoResponse
    /\ \E body \in bodies :
          /\ \E order \in ResultOrders(body) : response' = SearchWords(body, order)
          /\ _lemma_inv' = AfterSubscripts(_lemma_inv, Subscripted(body, "lemma"))
          /\ _root_inv' = AfterSubscripts(_root_inv, Subscripted(body, "root"))
          /\ _form_inv' = AfterSubscripts(_form_inv, Subscripted(body, "form"))
    /\ UNCHANGED <<morphology, started, _lemma_idf, _root_idf, _form_idf, _verse_lemmas,
                   _verse_roots, _lemma_roots, _root_arabic_map, inflight, tables>>

\* the threads of the server that handle requests side by side
Threads == {"t1", "t2"}

Idle == [pc |-> "idle"]

Init ==
    /\ morphology = {}
    /\ started = FALSE
    /\ _lemma_idf = EmptyDict /\ _root_idf = EmptyDict /\ _form_idf = EmptyDict
    /\ _verse_lemmas = EmptyDict /\ _verse_roots = EmptyDict
    /\ _lemma_inv = EmptyDict /\ _root_inv = EmptyDict /\ _form_inv = EmptyDict
    /\ _lemma_roots = EmptyDict /\ _root_arabic_map = EmptyDict
    /\ response = NoResponse
    /\ inflight = [t \in Threads |-> Idle]
    /\ verses = {}
    /\ word_glosses = {}

\* the related-verses service over the related-verses corpora
NextRelated ==
    \/ InsertMorphology(RelatedRows, MaxRows)
    \/ Build
    \/ get_related_verses(RelatedKeys, RelatedLimitArgs)
    \/ SendResponse

SpecRelated == Init /\ [][NextRelated]_vars

\* the terms a search request may carry: all three tokens of a word, the word
\* without its lemma, without lemma and root, the lemma alone, and no token at all
Terms ==
    {[lemma_bw |-> t[1], root_bw |-> t[2], form_bw |-> t[3], display_arabic |-> ""] :
        t \in {<<"k", "k", "k">>, <<"", "k", "k">>, <<"", "", "k">>, <<"k", "", "">>,
               <<"", "", "">>}}

TermLists == UNION {[1..n -> Terms] : n \in 0..MaxTerms}

\* the limit may be missing from the body
LimitArgs ==
    {[has_limit |-> FALSE, limit |-> 0]}
        \cup {[has_limit |-> TRUE, limit |-> n] : n \in {0, MaxLimit, SEARCH_LIMIT_CAP + 1}}

Bodies ==
    {[terms |-> terms, has_limit |-> l.has_limit, limit |-> l.limit,
      query_verse |-> qv, count_only |-> co] :
        terms \in TermLists, l \in LimitArgs,
        qv \in {NoVerse, <<1, 1>>}, co \in BOOLEAN}

\* the search service over the search corpora
NextSearch ==
    \/ InsertMorphology(SearchRows, MaxSearchRows)
    \/ Build
    \/ search_words(Bodies)
    \/ SendResponse

SpecSearch == Init /\ [][NextSearch]_vars

\* the terms, limits and bodies of the requests to the service with both routes
ServiceTerms ==
    {[lemma_bw |-> t[1], root_bw |-> t[2], form_bw |-> t[3], display_arabic |-> ""] :
        t \in {<<"k", "k", "k">>, <<"m", "", "m">>, <<"", "", "k">>, <<"", "", "">>}}

ServiceBodies ==
    {[terms |-> terms, has_limit |-> l.has_limit, limit |-> l.limit,
      query_verse |-> qv, count_only |-> co] :
        terms \in UNION {[1..n -> ServiceTerms] : n \in 0..MaxTerms},
        l \in {[has_limit |-> FALSE, limit |-> 0], [has_limit |-> TRUE, limit |-> 0]},
        qv \in {NoVerse, <<1, 1>>}, co \in BOOLEAN}

\* both routes over one index
NextService ==
    \/ InsertMorphology(ServiceRows, MaxServiceRows)
    \/ Build
    \/ get_related_verses(ServiceKeys, {0, MaxLimit})
    \/ search_words(ServiceBodies)
    \/ SendResponse

SpecService == Init /\ [][NextService]_vars

\* the build alone, from the profile sets or record by record
NextBuild ==
    \/ InsertMorphology(BuildRows, MaxBuildRows)
    \/ Build
    \/ BuildRecords

SpecBuild == Init /\ [][NextBuild]_vars

\* terms that name "k" as a lemma, as a root or as a form
PositionTerms ==
    {[lemma_bw |-> t[1], root_bw |-> t[2], form_bw |-> t[3], display_arabic |-> ""] :
        t \in {<<"k", "", "">>, <<"", "k", "">>, <<"", "", "k">>}}

PositionBodies ==
    {[terms |-> terms, has_limit |-> FALSE, limit |-> 0,
      query_verse |-> NoVerse, count_only |-> co] :
        terms \in UNION {[1..n -> PositionTerms] : n \in 0..MaxTerms}, co \in BOOLEAN}

\* the search service over the corpora of verses of two words
NextPositions ==
    \/ InsertMorphology(PositionRows, MaxPositionRows)
    \/ Build
    \/ search_words(PositionBodies)
    \/ SendResponse

SpecPositions == Init /\ [][NextPositions]_vars

\* ------------------------------------------------------- surrounding verses
\* seed_db.create_db: the next verse of one of `surahs` goes into the verses table
\* (the Tanzil text numbers the verses of a surah 1, 2, 3, ...; at most `cap` a surah)
InsertVerse(surahs, cap) ==
    /\ ~started
    /\ \E surah \in surahs :
          LET n == Cardinality({v \in verses : v[1] = surah})
          IN  /\ n < cap
              /\ verses' = verses \cup {<<surah, n + 1>>}
    /\ UNCHANGED <<morphology, started, index, response, inflight, word_glosses>>

\* the import of app.py: the build, then _BISMILLAH read from verse 1:1, which must
\* be in the table for the import to complete
ImportApp ==
    /\ <<1, 1>> \in verses
    /\ Build

\* before and after, "sliding at boundaries", then start and end
ContextRange(ayah, total) ==
    LET before == IF ayah <= CONTEXT_BEFORE THEN ayah - 1
                  ELSE IF ayah + CONTEXT_AFTER > total THEN CONTEXT_SIZE - (total - ayah)
                  ELSE CONTEXT_BEFORE
        after == IF ayah <= CONTEXT_BEFORE THEN CONTEXT_SIZE - (ayah - 1)
                 ELSE IF ayah + CONTEXT_AFTER > total THEN total - ayah
                 ELSE CONTEXT_AFTER
    IN  [start |-> Max(1, ayah - before), end |-> Min(total, ayah + after)]

RECURSIVE OrderByVerse(_)
\* ORDER BY v.verse, for rows of one chapter
OrderByVerse(rows) ==
    IF rows = {} THEN <<>>
    ELSE LET first == CHOOSE r \in rows : \A x \in rows : r[2] <= x[2]
         IN  <<first>> \o OrderByVerse(rows \ {first})

\* the rows of the SELECT of get_context (one row a verse: translations has at most
\* one row for a verse)
ContextRows(surah, ayah, start, end) ==
    OrderByVerse({v \in verses : v[1] = surah /\ start <= v[2] /\ v[2] <= end /\ v[2] # ayah})

\* GET /api/context/<surah>:<ayah> for the requests of `surahs` and `ayahs` (the int
\* converter of the route takes any non-negative number)
get_context(surahs, ayahs) ==
    /\ started
    /\ response = NoResponse
    /\ \E surah \in surahs, ayah \in ayahs :
          LET total == Cardinality({v \in verses : v[1] = surah})
              range == ContextRange(ayah, total)
          IN  response' =
                IF total = 0
                THEN [kind |-> "context", status |-> 404, surah |-> surah, ayah |-> ayah,
                      context |-> <<>>, surah_total |-> 0]
                ELSE [kind |-> "context", status |-> 200, surah |-> surah, ayah |-> ayah,
                      context |-> ContextRows(surah, ayah, range.start, range.end),
                      surah_total |-> total]
    /\ UNCHANGED <<morphology, started, index, inflight, tables>>

ContextSurahs == {1, 2}

\* the context service over the verses tables of two surahs
NextContext ==
    \/ InsertVerse(ContextSurahs, MaxVerses)
    \/ ImportApp
    \/ get_context(ContextSurahs, 0..(MaxVerses + 2))
    \/ SendResponse

SpecContext == Init /\ [][NextContext]_vars

\* --------------------------------------------------------------- word glosses
\* the rows of the word_glosses table for a verse
GlossRows(table, surah, ayah) == {g \in table : g.chapter = surah /\ g.verse = ayah}

\* {row["word_pos"]: row["translation_en"] for row in rows}; (chapter, verse,
\* word_pos) is the primary key, so a position has one row
CachedGlosses(rows) ==
    [pos \in {g.word_pos : g \in rows} |->
        (CHOOSE g \in rows : g.word_pos = pos).translation_en]

\* if pos and trans and char_type != "end"
KeepsWord(word) == word.position # 0 /\ word.text # "" /\ word.char_type_name # "end"

\* glosses[pos] = trans for the words kept, in the order of the answer: the last
\* word of a position wins
FetchedGlosses(words) ==
    LET kept == SelectSeq(words, KeepsWord)
    IN  AssignAll([i \in 1..Len(kept) |-> <<kept[i].position, kept[i].text>>])

\* the rows without conn.commit(): they go when the connection is closed
InsertedRowsUncommitted(table, surah, ayah, glosses) == table

\* INSERT OR REPLACE INTO word_glosses for each entry of glosses, then conn.commit()
InsertedRows(table, surah, ayah, glosses) ==
    {g \in table : ~(g.chapter = surah /\ g.verse = ayah /\ g.word_pos \in DOMAIN glosses)}
        \cup {[chapter |-> surah, verse |-> ayah, word_pos |-> pos,
               translation_en |-> glosses[pos]] : pos \in DOMAIN glosses}

\* the try block: requests.get, raise_for_status, resp.json() and the loop over the
\* words.  A failed request, or a word whose "translation" is null, ends in
\* "except Exception: return {}" before the commit, and the rows inserted so far go
\* when get_verse closes the connection.
FetchRaises(outcome) ==
    \/ ~outcome.ok
    \/ \E i \in 1..Len(outcome.words) : ~outcome.words[i].well_formed

\* _fetch_word_glosses(conn, surah, ayah) with the API answering `outcome` if asked:
\* the mapping returned, whether the API was asked, and the table afterwards
FetchWordGlosses(table, surah, ayah, outcome) ==
    LET rows == GlossRows(table, surah, ayah)
        glosses == FetchedGlosses(outcome.words)
    IN  IF rows # {}
        THEN [glosses |-> CachedGlosses(rows), requested |-> FALSE, table |-> table]
        ELSE IF FetchRaises(outcome)
        THEN [glosses |-> EmptyDict, requested |-> TRUE, table |-> table]
        ELSE [glosses |-> glosses, requested |-> TRUE,
              table |-> InsertedRows(table, surah, ayah, glosses)]

\* GET /api/verse/<surah>:<ayah> for the requests of `keys`, as far as the glosses
\* go: the 404 of a verse that is not in the table, or the glosses of the verse
get_verse(keys, outcomes) ==
    /\ started
    /\ response = NoResponse
    /\ \E key \in keys :
          IF key \notin verses
          THEN /\ response' = [kind |-> "verse", status |-> 404, surah |-> key[1],
                               ayah |-> key[2], glosses |-> EmptyDict, requested |-> FALSE]
               /\ UNCHANGED word_glosses
          ELSE \E outcome \in outcomes :
                  LET fetched == FetchWordGlosses(word_glosses, key[1], key[2], outcome)
                  IN  /\ response' = [kind |-> "verse", status |-> 200, surah |-> key[1],
                                      ayah |-> key[2], glosses |-> fetched.glosses,
                                      requested |-> fetched.requested]
                      /\ word_glosses' = fetched.table
    /\ UNCHANGED <<morphology, started, index, inflight, verses>>

\* the words of an answer of the API: two glosses for the first word, one for the
\* second, a word without position, a word without gloss, the end-of-verse mark, and
\* a word whose "translation" is null
GlossWords ==
    {[position |-> w[1], text |-> w[2], char_type_name |-> w[3], well_formed |-> TRUE] :
        w \in {<<1, "a", "word">>, <<1, "b", "word">>, <<2, "b", "word">>,
               <<0, "a", "word">>, <<2, "", "word">>, <<3, "a", "end">>}}
        \cup {[position |-> 1, text |-> "", char_type_name |-> "word", well_formed |-> FALSE]}

\* a request that fails, or an answer of up to MaxWords words
ApiOutcomes ==
    {[ok |-> FALSE, words |-> <<>>]}
        \cup {[ok |-> TRUE, words |-> words] :
                 words \in UNION {[1..n -> GlossWords] : n \in 0..MaxWords}}

GlossKeys == {<<1, a>> : a \in 1..(MaxGlossVerses + 1)}

\* the verse service over the verses of one surah
NextGlosses ==
    \/ InsertVerse({1}, MaxGlossVerses)
    \/ ImportApp
    \/ get_verse(GlossKeys, ApiOutcomes)
    \/ SendResponse

SpecGlosses == Init /\ [][NextGlosses]_vars

\* the related-verses service over the corpora of two roots
NextRoots ==
    \/ InsertMorphology(RootRows, MaxRootRows)
    \/ Build
    \/ get_related_verses(RootKeys, {0, MaxLimit})
    \/ SendResponse

SpecRoots == Init /\ [][NextRoots]_vars

\* --------------------------------------------- requests served side by side
MaxThreadRows == 3   \* morphology rows of a corpus served by two threads

\* two words of surah 1 outside each other's window, a word and a particle of surah 2
ThreadRows ==
    {MorphRow(1, 1, 1, "k", "k", "k"), MorphRow(1, 4, 1, "k", "k", "k"),
     MorphRow(2, 1, 1, "m", "", "m"), MorphRow(2, 1, 1, "", "", "k")}

ThreadTerms ==
    {[lemma_bw |-> t[1], root_bw |-> t[2], form_bw |-> t[3], display_arabic |-> ""] :
        t \in {<<"k", "k", "k">>, <<"m", "", "m">>}}

ThreadBodies ==
    {[terms |-> terms, has_limit |-> FALSE, limit |-> 0,
      query_verse |-> NoVerse, count_only |-> co] :
        terms \in UNION {[1..n -> ThreadTerms] : n \in 0..MaxTerms}, co \in BOOLEAN}

ThreadKeys == {<<1, 1>>, <<2, 1>>, <<2, 2>>}

\* requests are routed everywhere, whether or not the module has run its build
ServingAlways == TRUE

\* the server routes requests once app.py is imported, and the import runs
\* _build_similarity_engine() to its end first
Serving == started

\* a handler that has its response
Done(response_of) == [pc |-> "done", response |-> response_of]

\* search_words up to "if not terms"
StartSearch(t, bodies) ==
    /\ Serving
    /\ inflight[t] = Idle
    /\ \E body \in bodies :
          inflight' = [inflight EXCEPT ![t] =
              IF NoTerms(body.terms) THEN Done(NoTermsResponse(body))
              ELSE [pc |-> IF Len(body.terms) = 0 THEN "score" ELSE "resolve",
                    body |-> body, resolved |-> <<>>, candidate_sets |-> <<>>]]
    /\ UNCHANGED <<morphology, started, index, response, tables>>

\* one pass of the loop "for term in terms"
ResolveNextTerm(t) ==
    /\ inflight[t].pc = "resolve"
    /\ LET th == inflight[t]
           n == Len(th.resolved) + 1
           r == ResolveTerm(th.body.terms[n])
           read(search_type) == IF r # Unresolved /\ r.search_type = search_type
                                THEN {r.search_key} ELSE {}
       IN  /\ inflight' = [inflight EXCEPT ![t] =
                  IF r = Unresolved THEN Done(UnresolvedResponse(th.body))
                  ELSE [th EXCEPT !.resolved = Append(@, r),
                                  !.candidate_sets = Append(@, CandidateSet(r)),
                                  !.pc = IF n = Len(th.body.terms) THEN "score"
                                         ELSE "resolve"]]
           /\ _lemma_inv' = AfterSubscripts(_lemma_inv, read("lemma"))
           /\ _root_inv' = AfterSubscripts(_root_inv, read("root"))
           /\ _form_inv' = AfterSubscripts(_form_inv, read("form"))
    /\ UNCHANGED <<morphology, started, _lemma_idf, _root_idf, _form_idf, _verse_lemmas,
                   _verse_roots, _lemma_roots, _root_arabic_map, response, tables>>

\* search_words from the intersection to the response
ScoreResults(t) ==
    /\ inflight[t].pc = "score"
    /\ LET th == inflight[t]
           result_set == RemoveQueryVerse(Intersect(th.candidate_sets), th.body.query_verse)
       IN  IF Len(th.candidate_sets) = 0
           THEN inflight' = [inflight EXCEPT ![t] = Done(Raised("IndexError"))]
           ELSE \E order \in Orderings(result_set) :
                    inflight' = [inflight EXCEPT ![t] =
                        Done(SearchTail(th.body, th.resolved, result_set, order))]
    /\ UNCHANGED <<morphology, started, index, response, tables>>

\* get_related_verses up to the call of _find_related_verses
StartRelated(t, keys, limit_args) ==
    /\ Serving
    /\ inflight[t] = Idle
    /\ \E key \in keys, limit_arg \in limit_args :
          inflight' = [inflight EXCEPT ![t] =
              [pc |-> "gather", surah |-> key[1], ayah |-> key[2],
               limit_arg |-> limit_arg, limit |-> ClampRelatedLimit(limit_arg)]]
    /\ UNCHANGED <<morphology, started, index, response, tables>>

\* _find_related_verses up to the scoring loop
GatherCandidates(t) ==
    /\ inflight[t].pc = "gather"
    /\ LET th == inflight[t]
           query_key == <<th.surah, th.ayah>>
           query_lemmas == Get(_verse_lemmas, query_key, {})
           query_roots == Get(_verse_roots, query_key, {})
       IN  inflight' = [inflight EXCEPT ![t] =
               IF query_lemmas = {}
               THEN Done(RelatedResponse(th.surah, th.ayah, th.limit_arg, th.limit, <<>>))
               ELSE [pc |-> "rank", surah |-> th.surah, ayah |-> th.ayah,
                     limit_arg |-> th.limit_arg, limit |-> th.limit,
                     query_lemmas |-> query_lemmas, query_roots |-> query_roots,
                     candidates |-> Candidates(query_key, query_lemmas, query_roots)]]
    /\ UNCHANGED <<morphology, started, index, response, tables>>

\* the scoring loop, the sort and the slice of _find_related_verses, and the response
RankCandidates(t) ==
    /\ inflight[t].pc = "rank"
    /\ LET th == inflight[t]
       IN  \E order \in Orderings(th.candidates) :
               LET scored == SelectSeq([i \in 1..Len(order) |->
                                 ScoreCandidate(order[i], th.query_lemmas, th.query_roots)],
                                 IsScored)
                   results == Truncate(SortRelated(scored), th.limit)
               IN  inflight' = [inflight EXCEPT ![t] =
                       IF FindRelatedRaises(th.query_lemmas, th.query_roots, order)
                       THEN Done(Raised("ZeroDivisionError"))
                       ELSE Done(RelatedResponse(th.surah, th.ayah, th.limit_arg,
                                                 th.limit, results))]
    /\ UNCHANGED <<morphology, started, index, response, tables>>

\* the response leaves and the thread is free again
FinishRequest(t) ==
    /\ inflight[t].pc = "done"
    /\ inflight' = [inflight EXCEPT ![t] = Idle]
    /\ UNCHANGED <<morphology, started, index, response, tables>>

\* both routes, two requests at a time
NextThreads ==
    \/ InsertMorphology(ThreadRows, MaxThreadRows)
    \/ Build
    \/ \E t \in Threads :
          \/ StartSearch(t, ThreadBodies)
          \/ ResolveNextTerm(t)
          \/ ScoreResults(t)
          \/ StartRelated(t, ThreadKeys, {MaxLimit})
          \/ GatherCandidates(t)
          \/ RankCandidates(t)
          \/ FinishRequest(t)

SpecThreads == Init /\ [][NextThreads]_vars

\* ------------------------------------------------------------------ claims
IsRelated == response.kind = "related"

\* the entries _find_related_verses returned to the last /api/related request
Results == IF IsRelated THEN response.results ELSE <<>>

\* C1: the list returned by _find_related_verses never holds the query verse (c, v)
\* nor a verse (c, w) of the same chapter with v-2 <= w <= v+2.
C1_NoQueryNoNeighbour ==
    IsRelated =>
        \A i \in 1..Len(Results) :
            LET cand == Results[i].cand_key
            IN  /\ cand # <<response.surah, response.ayah>>
                /\ ~(/\ cand[1] = response.surah
                     /\ response.ayah - 2 <= cand[2]
                     /\ cand[2] <= response.ayah + 2)

\* a neighbour two verses away shares a positively weighted lemma with the query,
\* and a verse outside the window is returned
C1_Witness ==
    /\ IsRelated
    /\ Len(Results) >= 1
    /\ LET near == <<response.surah, response.ayah + 2>>
           query_lemmas == Get(_verse_lemmas, <<response.surah, response.ayah>>, {})
       IN  SumOver(_lemma_idf, Get(_verse_lemmas, near, {}) \cap query_lemmas, 0) > 0

\* C2: every entry returned by _find_related_verses has 0 <= containment <= 1 and
\* sharedWeight > 0; no candidate of zero shared weight or zero candidate total
\* is returned.
C2_ContainmentRange ==
    IsRelated =>
        \A i \in 1..Len(Results) :
            LET e == Results[i]
            IN  /\ ~FracLess(e.containment, FracZero)
                /\ ~FracLess(FracOne, e.containment)
                /\ e.shared_weight > 0
                /\ CandTotal(Get(_verse_lemmas, e.cand_key, {})) # 0

\* an entry whose shared weight exceeds its candidate total (the ratio is above 1
\* before the cap) is returned
C2_Witness ==
    /\ IsRelated
    /\ \E i \in 1..Len(Results) :
          Results[i].shared_weight > CandTotal(Get(_verse_lemmas, Results[i].cand_key, {}))

\* C3: for entries a before b of the returned list, a.containment > b.containment,
\* or the containments are equal and a.sharedWeight >= b.sharedWeight.
C3_SortOrder ==
    IsRelated =>
        \A i, j \in 1..Len(Results) :
            i < j =>
                LET a == Results[i]
                    b == Results[j]
                IN  \/ FracLess(b.containment, a.containment)
                    \/ /\ FracEq(a.containment, b.containment)
                       /\ a.shared_weight >= b.shared_weight

\* two entries of different containment are returned
C3_Witness ==
    /\ IsRelated
    /\ Len(Results) >= 2
    /\ FracLess(Results[2].containment, Results[1].containment)
IsSearch == response.kind = "search"

\* a search response that is not the 400 of an empty term list
IsSearchOk == IsSearch /\ response.status = 200

\* a search response made in full mode (count_only false)
IsFullMode == IsSearchOk /\ ~response.body.count_only

\* the verses of the "results" list of a search response
ReturnedVerses(resp) == {<<resp.results[i].surah, resp.results[i].ayah>> : i \in 1..Len(resp.results)}

\* the verse set the inverted index of a kind stores for a token
IndexEntry(search_type, search_key) ==
    IF search_type = "lemma" THEN _lemma_inv[search_key]
    ELSE IF search_type = "root" THEN _root_inv[search_key]
    ELSE _form_inv[search_key]

\* whether the index holds verses for the token (the build makes no empty entry)
Indexed(inv, tok) == tok # "" /\ Get(inv, tok, {}) # {}

\* whether the term has a token that the index of its own kind holds
TermResolvable(term) ==
    \/ Indexed(_lemma_inv, term.lemma_bw)
    \/ Indexed(_root_inv, term.root_bw)
    \/ Indexed(_form_inv, term.form_bw)

AllResolvable(terms) == \A i \in 1..Len(terms) : TermResolvable(terms[i])

\* the index entries of the resolved terms of a response, intersected, without the
\* exclude verse
MatchedSet(resp) ==
    {key \in SearchKeys :
        /\ \A i \in 1..Len(resp.terms_used) :
              key \in IndexEntry(resp.terms_used[i].search_type,
                                 resp.terms_used[i].search_key)
        /\ key # resp.body.query_verse}

\* a single-term request without exclusion whose term resolved
IsSingleTerm ==
    /\ IsSearchOk
    /\ Len(response.body.terms) = 1
    /\ response.body.query_verse = NoVerse
    /\ Len(response.terms_used) = 1

SingleTermEntry ==
    IndexEntry(response.terms_used[1].search_type, response.terms_used[1].search_key)

\* C4 as stated, read for full mode (a count-only response returns no verse at
\* all): a single-term search without exclusion returns exactly the verse set the
\* inverted index stores for the term's resolved token, and totalFound is the size
\* of that set.
C4_ReturnsWholeEntry ==
    (IsSingleTerm /\ IsFullMode) =>
        /\ ReturnedVerses(response) = SingleTermEntry
        /\ response.total_found = Cardinality(SingleTermEntry)

\* C4 amended: totalFound is the size of the stored set; in full mode the returned
\* verses are min(limit, size) distinct verses of that set (the whole set when it
\* has at most limit verses), and count-only mode returns no verses.
C4_ReturnsEntryUpToLimit ==
    IsSingleTerm =>
        /\ response.total_found = Cardinality(SingleTermEntry)
        /\ ReturnedVerses(response) \subseteq SingleTermEntry
        /\ Cardinality(ReturnedVerses(response)) = Len(response.results)
        /\ Len(response.results) =
              IF response.body.count_only THEN 0
              ELSE Min(response.limit, Cardinality(SingleTermEntry))

\* a full-mode single-term search whose stored set is larger than the limit
C4_Witness ==
    /\ IsSingleTerm
    /\ IsFullMode
    /\ Cardinality(SingleTermEntry) > response.limit
    /\ Len(response.results) = response.limit

\* the same request with the term list replaced
WithTerms(body, terms) == [body EXCEPT !.terms = terms]

\* the responses search_words may give to a body
Responses(body) == {SearchWords(body, order) : order \in ResultOrders(body)}

\* totalFound of a body (the same in every response to it)
TotalFound(body) == (CHOOSE resp \in Responses(body) : TRUE).total_found

IsTwoTerms == IsSearchOk /\ Len(response.body.terms) = 2

\* adding a term never increases totalFound
TotalFoundMonotone ==
    (IsSearchOk /\ Len(response.body.terms) >= 2) =>
        response.total_found <=
            TotalFound(WithTerms(response.body,
                                 SubSeq(response.body.terms, 1,
                                        Len(response.body.terms) - 1)))

\* C5 as stated: the verses returned for [T1, T2] are the intersection of the verses
\* returned for [T1] and for [T2], and adding a term never increases totalFound.
C5_IntersectionOfReturned ==
    /\ IsTwoTerms =>
          \A r1 \in Responses(WithTerms(response.body, <<response.body.terms[1]>>)),
             r2 \in Responses(WithTerms(response.body, <<response.body.terms[2]>>)) :
                ReturnedVerses(response) = ReturnedVerses(r1) \cap ReturnedVerses(r2)
    /\ TotalFoundMonotone

\* C5 amended: when neither single-term search is cut by the limit (its totalFound
\* is at most limit), the verses returned for [T1, T2] are the intersection of the
\* verses returned for [T1] and for [T2]; adding a term never increases totalFound.
C5_IntersectionWithinLimit ==
    /\ IsTwoTerms =>
          \A r1 \in Responses(WithTerms(response.body, <<response.body.terms[1]>>)),
             r2 \in Responses(WithTerms(response.body, <<response.body.terms[2]>>)) :
                (r1.total_found <= response.limit /\ r2.total_found <= response.limit)
                    => ReturnedVerses(response) = ReturnedVerses(r1) \cap ReturnedVerses(r2)
    /\ TotalFoundMonotone

\* a full-mode search of two terms whose index entries differ, with a verse in both
C5_Witness ==
    /\ IsTwoTerms
    /\ IsFullMode
    /\ Len(response.terms_used) = 2
    /\ IndexEntry(response.terms_used[1].search_type, response.terms_used[1].search_key)
          # IndexEntry(response.terms_used[2].search_type, response.terms_used[2].search_key)
    /\ Len(response.results) >= 1
    /\ response.total_found <
          TotalFound(WithTerms(response.body, <<response.body.terms[1]>>))

\* C6: if any term resolves to no lemma, root or form of the indices, the response
\* has no results, no resolved terms and totalFound 0, whatever the other terms,
\* their order, the exclude verse and the countOnly flag.
C6_UnresolvableShortCircuit ==
    (IsSearchOk /\ ~AllResolvable(response.body.terms)) =>
        /\ response.results = <<>>
        /\ response.terms_used = <<>>
        /\ response.total_found = 0

\* a count-only request with an exclude verse whose first term resolves and whose
\* second does not
C6_Witness ==
    /\ IsTwoTerms
    /\ response.body.count_only
    /\ response.body.query_verse # NoVerse
    /\ TermResolvable(response.body.terms[1])
    /\ ~TermResolvable(response.body.terms[2])

\* the kind a term resolves as: the first of lemma, root, form whose token is a key
\* of the index of that kind
ExpectedResolution(term) ==
    IF term.lemma_bw # "" /\ term.lemma_bw \in DOMAIN _lemma_inv
    THEN <<"lemma", term.lemma_bw>>
    ELSE IF term.root_bw # "" /\ term.root_bw \in DOMAIN _root_inv
    THEN <<"root", term.root_bw>>
    ELSE <<"form", term.form_bw>>

\* C7: each term resolves by first match in the priority lemma, root, form, each
\* token looked up only in the index of its own kind.
C7_ResolutionPriority ==
    (IsSearchOk /\ AllResolvable(response.body.terms)) =>
        /\ Len(response.terms_used) = Len(response.body.terms)
        /\ \A i \in 1..Len(response.body.terms) :
              <<response.terms_used[i].search_type, response.terms_used[i].search_key>>
                  = ExpectedResolution(response.body.terms[i])

\* a term whose lemma token is a root and a form of the corpus but no lemma of it
\* resolves as a root
C7_Witness ==
    /\ IsSearchOk
    /\ \E i \in 1..Len(response.terms_used) :
          /\ response.body.terms[i].lemma_bw # ""
          /\ response.body.terms[i].lemma_bw \notin DOMAIN _lemma_inv
          /\ response.body.terms[i].lemma_bw \in DOMAIN _root_inv
          /\ response.body.terms[i].lemma_bw \in DOMAIN _form_inv
          /\ response.terms_used[i].search_type = "root"

C9_CountOnly ==
    (IsSearchOk /\ response.body.count_only) =>
        /\ response.results = <<>>
        /\ response.scored = <<>>
        /\ AllResolvable(response.body.terms) => ~response.results_present
        /\ \A full \in Responses([response.body EXCEPT !.count_only = FALSE]) :
              /\ response.terms_used = full.terms_used
              /\ response.total_found = full.total_found

\* a count-only search told to exclude a verse that every term matches, with
\* another verse left to count
C9_Witness ==
    /\ IsSearchOk
    /\ response.body.count_only
    /\ Len(response.terms_used) >= 1
    /\ response.body.query_verse # NoVerse
    /\ \A i \in 1..Len(response.terms_used) :
          response.body.query_verse \in
              IndexEntry(response.terms_used[i].search_type,
                         response.terms_used[i].search_key)
    /\ response.total_found >= 1

RECURSIVE ExpectedScore(_)
\* the sum over the resolved terms of idf for a lemma and half of idf for a root or
\* a form, in two-thousandths; a token missing from its IDF table counts 0
ExpectedScore(terms_used) ==
    IF Len(terms_used) = 0 THEN 0
    ELSE LET r == terms_used[Len(terms_used)]
             idf == IF r.search_type = "lemma" THEN Get(_lemma_idf, r.search_key, 0)
                    ELSE IF r.search_type = "root" THEN Get(_root_idf, r.search_key, 0)
                    ELSE Get(_form_idf, r.search_key, 0)
         IN  ExpectedScore(SubSeq(terms_used, 1, Len(terms_used) - 1))
                + (IF r.search_type = "lemma" THEN 2 * idf ELSE idf)

\* C10: in full mode the score of each returned verse is the sum over the resolved
\* terms of idf for a lemma term and 0.5 * idf for a root or form term, and the
\* results are in order of non-increasing score.
C10_Score ==
    IsFullMode =>
        /\ \A i \in 1..Len(response.scored) :
              response.scored[i].score = ExpectedScore(response.terms_used)
        /\ \A i, j \in 1..Len(response.scored) :
              i < j => response.scored[i].score >= response.scored[j].score

\* a full-mode search of a lemma term and a root or form term of non-zero idf that
\* returns a verse
C10_Witness ==
    /\ IsFullMode
    /\ Len(response.scored) >= 1
    /\ \E i, j \in 1..Len(response.terms_used) :
          /\ response.terms_used[i].search_type = "lemma"
          /\ response.terms_used[j].search_type # "lemma"
          /\ ExpectedScore(<<response.terms_used[j]>>) # 0

\* the morphology rows of a verse
RowsOf(key) == {r \in morphology : r.chapter = key[1] /\ r.verse = key[2]}

\* the verse has no lemma profile: no row of it carries a lemma
NoLemmaProfile(key) == \A r \in RowsOf(key) : r.lemma_buckwalter = ""

QueryKey == <<response.surah, response.ayah>>

\* C11: a query verse without lemma profile (absent from the corpus, or with rows
\* that carry no lemma, whatever roots and forms they carry) gets an empty list from
\* _find_related_verses, and the response is the regular one with an empty
\* "related" list and query_lemma_count 0.
C11_NoLemmaProfileEmpty ==
    (IsRelated /\ NoLemmaProfile(QueryKey)) =>
        /\ Results = <<>>
        /\ response.related = <<>>
        /\ response.query_lemma_count = 0

\* the query verse has a root and no lemma, and a verse outside the window carries
\* that root with positive idf next to a lemma of positive idf
C11_Witness ==
    /\ IsRelated
    /\ NoLemmaProfile(QueryKey)
    /\ \E rbw \in Get(_verse_roots, QueryKey, {}) :
          /\ Get(_root_idf, rbw, 0) > 0
          /\ \E cand \in _root_inv[rbw] \ (Adjacent(QueryKey[1], QueryKey[2])) :
                CandTotal(Get(_verse_lemmas, cand, {})) > 0

\* the corpus has no lemma record and no root record
NoLemmaNoRoot == \A r \in morphology : r.lemma_buckwalter = "" /\ r.root_buckwalter = ""

\* C12: when the corpus has no lemma record and no root record, form records or
\* not, the build completes and leaves every structure empty; afterwards every
\* /api/related answer is empty and every search with a non-empty term list has no
\* result, no resolved term and total_found 0.
C12_EmptyCorpus ==
    (started /\ NoLemmaNoRoot) =>
        /\ \A i \in 1..Len(index) : DOMAIN index[i] = {}
        /\ IsRelated => (Results = <<>> /\ response.related = <<>>)
        /\ (IsSearch /\ Len(response.body.terms) >= 1) =>
              /\ response.status = 200
              /\ response.results = <<>>
              /\ response.terms_used = <<>>
              /\ response.total_found = 0

\* the corpus holds only particles, and a search names the form of one of them
C12_Witness ==
    /\ started
    /\ NoLemmaNoRoot
    /\ IsSearch
    /\ \E i \in 1..Len(response.body.terms) :
          \E r \in morphology : r.form_buckwalter = response.body.terms[i].form_bw

\* the verses of the corpus with a row that satisfies `has`
VersesWith(has(_)) == {<<r.chapter, r.verse>> : r \in {x \in morphology : has(x)}}

\* document frequencies counted from the corpus: the distinct verses with a row
\* carrying the token
LemmaDf(t) == Cardinality(VersesWith(LAMBDA r : r.lemma_buckwalter = t))
RootDf(t) == Cardinality(VersesWith(LAMBDA r : r.root_buckwalter = t))
FormDf(t) == Cardinality(VersesWith(LAMBDA r : r.form_buckwalter = t))

\* N counted from the corpus: the distinct verses with at least one lemma or at least
\* one root
CorpusN ==
    Cardinality(VersesWith(LAMBDA r : r.lemma_buckwalter # "" \/ r.root_buckwalter # ""))

\* C13: after the build, every token of the lemma, root and form idf tables has
\* idf = ln(N / df), where df is the number of distinct verses whose rows carry the
\* token, df >= 1, and N is the number of distinct verses with at least one lemma or
\* root (a verse with both counted once).
C13_IdfFromCorpus ==
    started =>
        /\ \A t \in DOMAIN _lemma_idf :
              LemmaDf(t) >= 1 /\ _lemma_idf[t] = Log(CorpusN, LemmaDf(t))
        /\ \A t \in DOMAIN _root_idf :
              RootDf(t) >= 1 /\ _root_idf[t] = Log(CorpusN, RootDf(t))
        /\ \A t \in DOMAIN _form_idf :
              FormDf(t) >= 1 /\ _form_idf[t] = Log(CorpusN, FormDf(t))

\* a built corpus with a verse that has a lemma and a root, a lemma of positive idf,
\* and a form found in more verses than N counts
C13_Witness ==
    /\ started
    /\ \E r \in morphology : r.lemma_buckwalter # "" /\ r.root_buckwalter # ""
    /\ \E t \in DOMAIN _lemma_idf : _lemma_idf[t] > 0
    /\ \E t \in DOMAIN _form_idf : FormDf(t) > CorpusN

Range(f) == {f[x] : x \in DOMAIN f}

\* an inverted index and a profile map hold the same (verse, token) pairs
TwoViews(inv, profile) ==
    \A key \in DOMAIN profile \cup UNION Range(inv),
       t \in DOMAIN inv \cup UNION Range(profile) :
          key \in Get(inv, t, {}) <=> t \in Get(profile, key, {})

\* C14: after the build, verse k is in the lemma (root) inverted index entry of token
\* t if and only if t is in the lemma (root) profile of verse k.
C14_IndexMirrorsProfile ==
    started => (TwoViews(_lemma_inv, _verse_lemmas) /\ TwoViews(_root_inv, _verse_roots))

\* a built corpus with a lemma in two verses, a verse of two lemmas and a root in
\* two verses
C14_Witness ==
    /\ started
    /\ \E t \in DOMAIN _lemma_inv : Cardinality(_lemma_inv[t]) >= 2
    /\ \E key \in DOMAIN _verse_lemmas : Cardinality(_verse_lemmas[key]) >= 2
    /\ \E t \in DOMAIN _root_inv : Cardinality(_root_inv[t]) >= 2

\* C15: two builds from the same set of morphology rows, met in any two orders,
\* leave equal structures: the index of the service equals, field by field, the
\* index a build would leave from the same rows in every other order.
C15_BuildOrderIndependent ==
    started => \A records \in Orderings(morphology) : index = BuildInOrder(records)

\* a built corpus of three rows with a lemma in two verses, a lemma of two roots and
\* a root met in two rows
C15_Witness ==
    /\ started
    /\ Cardinality(morphology) = 3
    /\ \E t \in DOMAIN _lemma_inv : Cardinality(_lemma_inv[t]) = 2
    /\ \E t \in DOMAIN _lemma_roots : Cardinality(_lemma_roots[t]) = 2
    /\ \E t \in DOMAIN _root_arabic_map :
          Cardinality({r \in morphology : r.root_buckwalter = t}) >= 2

\* C16: once the build has run, no request changes a structure of the index: the
\* profiles, the inverted indices (no key added, no verse added to or removed from
\* an entry), the idf tables, the lemma-to-root map and the root display map.
C16_IndexFrozen == [][started => index' = index]_vars

\* a search whose first term resolves and is read from its index, and whose second
\* term names a lemma the index does not hold
C16_Witness ==
    /\ IsSearchOk
    /\ Len(response.body.terms) = 2
    /\ TermResolvable(response.body.terms[1])
    /\ response.body.terms[2].lemma_bw # ""
    /\ ~TermResolvable(response.body.terms[2])

\* the lemma and root profiles of a verse, empty for a verse without one
Lemmas(key) == Get(_verse_lemmas, key, {})
Roots(key) == Get(_verse_roots, key, {})

\* the case of the example: query verse q and verse c share the lemma l, of positive
\* idf, and no other lemma; q has a root and c has none of q's roots
ExampleCase(q, c, l) ==
    /\ Lemmas(q) \cap Lemmas(c) = {l}
    /\ Get(_lemma_idf, l, 0) > 0
    /\ Roots(q) # {}
    /\ Roots(q) \cap Roots(c) = {}

\* the candidates of a query that pass the scoring loop
Eligible(q) ==
    {c \in Candidates(q, Lemmas(q), Roots(q)) :
        IsScored(ScoreCandidate(c, Lemmas(q), Roots(q)))}

\* the limit of the request is not below the number of scored candidates
NotCut == Cardinality(Eligible(QueryKey)) <= response.limit

\* verse c is returned with sharedWeight = idf(l) and containment = idf(l) / candidateTotal
ReturnedAsExample(c, l) ==
    \E i \in 1..Len(Results) :
        /\ Results[i].cand_key = c
        /\ Results[i].shared_weight = 2 * _lemma_idf[l]
        /\ FracEq(Results[i].containment, Frac(2 * _lemma_idf[l], CandTotal(Lemmas(c))))

\* C17 as stated, for a query verse and the next verse of its chapter, as (2,255) and
\* (2,256) are: when both contain a lemma of positive idf, the query verse has a root
\* and the next verse does not share it, the next verse is returned with
\* sharedWeight = idf(lemma) and containment = idf(lemma) / candidateTotal.
C17_ExampleNextVerse ==
    (IsRelated /\ NotCut) =>
        \A l \in Lemmas(QueryKey) :
            ExampleCase(QueryKey, <<response.surah, response.ayah + 1>>, l)
                => ReturnedAsExample(<<response.surah, response.ayah + 1>>, l)

\* C17 amended: the same for every verse outside the window of two verses around the
\* query verse, when the limit does not cut the list.
C17_ExampleOutsideWindow ==
    (IsRelated /\ NotCut) =>
        \A c \in RelatedKeys \ Adjacent(response.surah, response.ayah) :
            \A l \in Lemmas(QueryKey) :
                ExampleCase(QueryKey, c, l) => ReturnedAsExample(c, l)

\* the case of the example with a verse outside the window that has a second lemma,
\* so that the containment is below 1
C17_Witness ==
    /\ IsRelated
    /\ NotCut
    /\ \E c \in RelatedKeys \ Adjacent(response.surah, response.ayah) :
          \E l \in Lemmas(QueryKey) :
              /\ ExampleCase(QueryKey, c, l)
              /\ CandTotal(Lemmas(c)) > 2 * _lemma_idf[l]
              /\ ReturnedAsExample(c, l)

\* the scored candidates of the query of the response: none when the query verse has
\* no lemma profile
EligibleForQuery == IF Lemmas(QueryKey) = {} THEN {} ELSE Eligible(QueryKey)

\* the scoring tuple of a candidate of the query of the response
ScoreOf(c) == ScoreCandidate(c, Lemmas(QueryKey), Roots(QueryKey))

\* x ranks strictly above y: a larger containment, or the same with a larger
\* shared weight
RanksAbove(x, y) ==
    \/ FracLess(y.containment, x.containment)
    \/ /\ FracEq(x.containment, y.containment)
       /\ x.shared_weight > y.shared_weight

\* C18: whatever integer the request gives as limit (0, negative and large ones
\* included), _find_related_verses runs with a limit in 1..25 and the response has
\* min(limit, number of scored candidates) entries, each a scored candidate given
\* once, and no scored candidate left out ranks strictly above a returned one.
C18_LimitClamped ==
    IsRelated =>
        /\ response.limit \in 1..RELATED_LIMIT_CAP
        /\ Len(Results) <= response.limit
        /\ Len(Results) = Min(response.limit, Cardinality(EligibleForQuery))
        /\ Len(response.related) = Len(Results)
        /\ \A i \in 1..Len(Results) :
              /\ Results[i].cand_key \in EligibleForQuery
              /\ Results[i] = ScoreOf(Results[i].cand_key)
              /\ \A j \in 1..Len(Results) : Results[i].cand_key = Results[j].cand_key => i = j
        /\ \A c \in EligibleForQuery \ {Results[i].cand_key : i \in 1..Len(Results)} :
              \A i \in 1..Len(Results) : ~RanksAbove(ScoreOf(c), Results[i])

\* a request with a limit below 1 that has two scored candidates: the one returned
\* ranks strictly above the one left out
C18_Witness ==
    /\ IsRelated
    /\ response.limit_arg < 0
    /\ Len(Results) = 1
    /\ \E c \in EligibleForQuery : RanksAbove(Results[1], ScoreOf(c))

\* the index a build leaves from the rows of the corpus
BuiltIndex == BuildInOrder(CHOOSE records \in Orderings(morphology) : TRUE)

\* the responses a related-verses request gets when it runs alone on the index
RelatedResponses(surah, ayah, limit_arg) ==
    {RelatedResponse(surah, ayah, limit_arg, ClampRelatedLimit(limit_arg),
                     FindRelatedVerses(surah, ayah, ClampRelatedLimit(limit_arg), order)) :
        order \in CandidateOrders(surah, ayah)}

\* a finished handler has a response it could have given running alone
SameAsAlone(th) ==
    th.pc = "done" =>
        IF th.response.kind = "search"
        THEN th.response \in Responses(th.response.body)
        ELSE /\ th.response.kind = "related"
             /\ th.response \in
                    RelatedResponses(th.response.surah, th.response.ayah,
                                     th.response.limit_arg)

\* C19: the build runs once, from an empty index, with no request in flight, and is
\* complete before a handler runs; while requests of both routes interleave, the
\* index every step reads is the one the build left, and every request ends with a
\* response it could have given running alone.
C19_BuiltOnceThenShared ==
    /\ [](/\ (\E t \in Threads : inflight[t] # Idle) => started
          /\ index = IF started THEN BuiltIndex ELSE EmptyIndex
          /\ \A t \in Threads : SameAsAlone(inflight[t]))
    /\ [][started' # started => (~started /\ \A t \in Threads : inflight[t] = Idle)]_vars

\* a search has finished with a result while a related-verses request of the other
\* thread is between its gathering and its scoring step
C19_Witness ==
    \E t, u \in Threads :
        /\ inflight[t].pc = "done"
        /\ inflight[t].response.kind = "search"
        /\ Len(inflight[t].response.results) >= 1
        /\ inflight[u].pc = "rank"
        /\ inflight[u].candidates # {}

\* C20: every request to either route ends with a result and not with an exception,
\* whatever the verse and the limit of /api/related and whatever the term list (the
\* empty one and terms without lemma, root and form included), the exclude verse
\* and the count_only flag of /api/search-words: a related-verses response carries a
\* list, and a search response carries status 200 with a count, or the 400 of an
\* empty term list.
C20_NeverRaises ==
    /\ response.kind \in {"none", "related", "search"}
    /\ IsRelated => Len(response.related) = Len(response.results)
    /\ IsSearch =>
          /\ response.status = IF Len(response.body.terms) = 0 THEN 400 ELSE 200
          /\ response.total_found \in 0..Cardinality(ServiceKeys)
          /\ Len(response.results) <= response.total_found

\* a search with an empty term list, an exclude verse and the count_only flag has
\* been answered
C20_Witness ==
    /\ IsSearch
    /\ Len(response.body.terms) = 0
    /\ response.body.query_verse # NoVerse
    /\ response.body.count_only

\* the lemmas and the roots that the rows of a verse carry
CorpusLemmas(key) == {r.lemma_buckwalter : r \in RowsOf(key)} \ {""}
CorpusRoots(key) == {r.root_buckwalter : r \in RowsOf(key)} \ {""}

\* LemmaToRoot(l): the roots that rows of the corpus carry next to the lemma l
LemmaToRoot(l) ==
    {r.root_buckwalter : r \in {x \in morphology : x.lemma_buckwalter = l}} \ {""}

\* ln(N / df) of the lemmas and roots of a set, counted from the corpus
CorpusLemmaIdf(S) == [l \in S |-> Log(CorpusN, LemmaDf(l))]
CorpusRootIdf(S) == [r \in S |-> Log(CorpusN, RootDf(r))]

\* the roots reachable from the lemmas that verses q and c share
ReachableRoots(q, c) == UNION {LemmaToRoot(l) : l \in CorpusLemmas(q) \cap CorpusLemmas(c)}

\* extraRoots of candidate c for query q
ExtraRoots(q, c) == (CorpusRoots(c) \cap CorpusRoots(q)) \ ReachableRoots(q, c)

\* the lemma part of the weight, and the whole weight, in two-thousandths
LemmaCredit(q, c) ==
    LET shared == CorpusLemmas(q) \cap CorpusLemmas(c)
    IN  2 * SumOver(CorpusLemmaIdf(shared), shared, 0)
ExpectedSharedWeight(q, c) ==
    LemmaCredit(q, c) + SumOver(CorpusRootIdf(ExtraRoots(q, c)), ExtraRoots(q, c), 0)

\* C21: every scored candidate c of query q has sharedWeight = sum of idf over the
\* lemmas shared by c and q + 0.5 * sum of idf over extraRoots, extraRoots being the
\* roots of both verses that no shared lemma reaches through the lemma-to-root map;
\* when every root of both verses is reached from a shared lemma, the weight is the
\* lemma credit alone.
C21_SharedWeight ==
    IsRelated =>
        /\ \A c \in EligibleForQuery :
              ScoreOf(c).shared_weight = ExpectedSharedWeight(QueryKey, c)
        /\ \A i \in 1..Len(Results) :
              LET c == Results[i].cand_key
              IN  /\ Results[i].shared_weight = ExpectedSharedWeight(QueryKey, c)
                  /\ (CorpusRoots(c) \cap CorpusRoots(QueryKey)) \subseteq ReachableRoots(QueryKey, c)
                        => Results[i].shared_weight = LemmaCredit(QueryKey, c)

\* a returned verse shares with the query a lemma and a root of positive idf that
\* the lemma reaches
C21_Witness ==
    /\ IsRelated
    /\ \E i \in 1..Len(Results) :
          LET c == Results[i].cand_key
          IN  \E r \in CorpusRoots(c) \cap CorpusRoots(QueryKey) \cap ReachableRoots(QueryKey, c) :
                  Log(CorpusN, RootDf(r)) > 0

\* candidateTotal of a verse counted from the corpus, in two-thousandths
ExpectedCandTotal(c) == 2 * SumOver(CorpusLemmaIdf(CorpusLemmas(c)), CorpusLemmas(c), 0)

\* C22: every returned candidate has containment = min(sharedWeight / candidateTotal, 1),
\* candidateTotal being the sum of idf over all lemmas of the candidate; a candidate
\* whose lemmas all occur in the query verse has containment exactly 1 (and the
\* response shows similarity_score 1.0), however many lemmas the query has besides.
C22_Containment ==
    IsRelated =>
        \A i \in 1..Len(Results) :
            LET e == Results[i]
                total == ExpectedCandTotal(e.cand_key)
            IN  /\ total > 0
                /\ FracEq(e.containment,
                          IF e.shared_weight > total THEN FracOne
                          ELSE Frac(e.shared_weight, total))
                /\ CorpusLemmas(e.cand_key) \subseteq CorpusLemmas(QueryKey) =>
                      /\ FracEq(e.containment, FracOne)
                      /\ response.related[i].similarity_score = 1000

\* a returned verse has one lemma, which the query verse has next to another lemma
\* of positive idf
C22_Witness ==
    /\ IsRelated
    /\ \E i \in 1..Len(Results) :
          /\ CorpusLemmas(Results[i].cand_key) \subseteq CorpusLemmas(QueryKey)
          /\ \E l \in CorpusLemmas(QueryKey) \ CorpusLemmas(Results[i].cand_key) :
                Log(CorpusN, LemmaDf(l)) > 0

\* the verses of the corpus
CorpusVerses == {<<r.chapter, r.verse>> : r \in morphology}

\* verse c shares a lemma or a root with verse q
SharesToken(q, c) ==
    \/ CorpusLemmas(q) \cap CorpusLemmas(c) # {}
    \/ CorpusRoots(q) \cap CorpusRoots(c) # {}

\* outside the window of two verses around q in its chapter
OutsideWindow(q, c) == ~(c[1] = q[1] /\ q[2] - 2 <= c[2] /\ c[2] <= q[2] + 2)

\* the verses the claim calls eligible for query q
EligibleVerses(q) ==
    {c \in CorpusVerses :
        /\ SharesToken(q, c)
        /\ c # q
        /\ OutsideWindow(q, c)
        /\ CorpusLemmas(c) # {}
        /\ ExpectedSharedWeight(q, c) > 0
        /\ ExpectedCandTotal(c) > 0}

ReturnedKeys == {Results[i].cand_key : i \in 1..Len(Results)}

\* every returned verse shares a lemma or a root with the query and has a lemma profile
GatheringSound ==
    \A c \in ReturnedKeys : SharesToken(QueryKey, c) /\ CorpusLemmas(c) # {}

\* C23 as stated: gathering is sound, and when the limit is at least the number of
\* eligible verses, every eligible verse is returned.
C23_GatheringAsStated ==
    IsRelated =>
        /\ GatheringSound
        /\ Cardinality(EligibleVerses(QueryKey)) <= response.limit =>
              EligibleVerses(QueryKey) \subseteq ReturnedKeys

\* C23 amended: gathering is sound, and when the query verse has a lemma profile and
\* the limit is at least the number of eligible verses, every eligible verse is
\* returned.
C23_GatheringSoundComplete ==
    IsRelated =>
        /\ GatheringSound
        /\ (/\ CorpusLemmas(QueryKey) # {}
            /\ Cardinality(EligibleVerses(QueryKey)) <= response.limit) =>
              EligibleVerses(QueryKey) \subseteq ReturnedKeys

\* a verse that shares a root and no lemma with the query verse is returned, while a
\* verse inside the window that shares a token with the query is not
C23_Witness ==
    /\ IsRelated
    /\ \E c \in ReturnedKeys : CorpusLemmas(QueryKey) \cap CorpusLemmas(c) = {}
    /\ \E c \in CorpusVerses \ {QueryKey} :
          SharesToken(QueryKey, c) /\ ~OutsideWindow(QueryKey, c)

\* the token of a kind that a morphology row carries
TokenOf(row, search_type) ==
    IF search_type = "lemma" THEN row.lemma_buckwalter
    ELSE IF search_type = "root" THEN row.root_buckwalter
    ELSE row.form_buckwalter

\* the row carries the resolved term's key as a token of the term's kind
RowMatches(row, term) == TokenOf(row, term.search_type) = term.search_key

\* C24: in a full-mode search response, the matched positions of each returned verse
\* are exactly the word positions with a segment that carries the key of a resolved
\* term as a token of that term's kind (a lemma key matches lemmas only, a root key
\* roots only, a form key forms only), and each resolved term has a matched position
\* in each returned verse.
C24_MatchedPositions ==
    IsFullMode =>
        \A i \in 1..Len(response.results) :
            LET res == response.results[i]
                rows == RowsOf(<<res.surah, res.ayah>>)
                terms_used == response.terms_used
            IN  /\ res.matched_positions =
                      {row.word_pos : row \in
                          {x \in rows : \E j \in 1..Len(terms_used) : RowMatches(x, terms_used[j])}}
                /\ \A j \in 1..Len(terms_used) :
                      \E row \in rows :
                          /\ RowMatches(row, terms_used[j])
                          /\ row.word_pos \in res.matched_positions

\* a returned verse has a matched word, and another word that is not matched
\* although a segment of it carries the text of a key as a token of another kind
C24_Witness ==
    /\ IsFullMode
    /\ \E i \in 1..Len(response.results) :
          LET res == response.results[i]
          IN  /\ res.matched_positions # {}
              /\ \E row \in RowsOf(<<res.surah, res.ayah>>) :
                    /\ row.word_pos \notin res.matched_positions
                    /\ \E j \in 1..Len(response.terms_used) :
                          response.terms_used[j].search_key \in
                              {row.lemma_buckwalter, row.root_buckwalter, row.form_buckwalter}

IsContext == response.kind = "context" /\ response.status = 200

\* C25: for a surah with at least one verse and any ayah number from 0 on, the
\* response of get_context lists at most 6 verses, all of that surah, none of them
\* the queried verse.
C25_ContextAtMostSix ==
    IsContext =>
        /\ Len(response.context) <= CONTEXT_SIZE
        /\ \A i \in 1..Len(response.context) :
              /\ response.context[i][1] = response.surah
              /\ response.context[i] # <<response.surah, response.ayah>>

\* a mapping, and the rows of the cache, as sets of (position, gloss) pairs
PairsOf(glosses) == {<<pos, glosses[pos]>> : pos \in DOMAIN glosses}
PairsOfRows(rows) == {<<g.word_pos, g.translation_en>> : g \in rows}

\* C26: a call for a verse whose cache rows are not empty returns exactly those rows,
\* asks the API nothing and leaves the table alone; a call for a verse without rows
\* asks the API, and when it gets a mapping that is not empty the rows of the verse
\* are that mapping afterwards; and the rows of a verse, once there are some, never
\* change, so that every later call returns the same mapping from the cache.
C26_CachedOrFetchedOnce ==
    [][/\ (response = NoResponse /\ response'.kind = "verse" /\ response'.status = 200) =>
            LET surah == response'.surah
                ayah == response'.ayah
                before == GlossRows(word_glosses, surah, ayah)
                after == GlossRows(word_glosses', surah, ayah)
            IN  /\ before # {} =>
                      /\ PairsOf(response'.glosses) = PairsOfRows(before)
                      /\ ~response'.requested
                      /\ word_glosses' = word_glosses
                /\ before = {} => response'.requested
                /\ (response'.requested /\ DOMAIN response'.glosses # {}) =>
                      PairsOfRows(after) = PairsOf(response'.glosses)
       /\ \A key \in GlossKeys :
            GlossRows(word_glosses, key[1], key[2]) # {} =>
                GlossRows(word_glosses', key[1], key[2]) = GlossRows(word_glosses, key[1], key[2])
      ]_vars

\* a call is answered with two glosses from the cache, without a request to the API,
\* while the other verse has no row yet
C26_Witness ==
    /\ response.kind = "verse"
    /\ response.status = 200
    /\ ~response.requested
    /\ Cardinality(DOMAIN response.glosses) = 2
    /\ \E key \in verses : GlossRows(word_glosses, key[1], key[2]) = {}

\* C27: after the build every lemma, root and form of the idf tables has df <= N
\* and an idf that is not negative, and no verse of a full-mode search response has
\* a negative score, also for corpora in which verses carry a form and neither
\* lemma nor root.
C27_NoNegativeWeight ==
    started =>
        /\ \A t \in DOMAIN _lemma_idf : LemmaDf(t) <= CorpusN /\ _lemma_idf[t] >= 0
        /\ \A t \in DOMAIN _root_idf : RootDf(t) <= CorpusN /\ _root_idf[t] >= 0
        /\ \A t \in DOMAIN _form_idf : FormDf(t) <= CorpusN /\ _form_idf[t] >= 0
        /\ IsFullMode =>
              \A i \in 1..Len(response.results) :
                  response.scored[i].score >= 0 /\ response.results[i].score >= 0

\* C28: every root of the sharedRoots set of a returned entry, and of the
\* shared_roots list the response shows for it, is a root of the query verse and a
\* root of the candidate verse, also when a shared lemma has several roots in the
\* lemma-to-root map.
C28_SharedRootsInBoth ==
    IsRelated =>
        \A i \in 1..Len(Results) :
            LET both == CorpusRoots(QueryKey) \cap CorpusRoots(Results[i].cand_key)
            IN  /\ Results[i].all_shared_roots \subseteq both
                /\ {r.root_buckwalter : r \in response.related[i].shared_roots} \subseteq both

\* the result set of search_words for a body, before scoring and truncation: empty
\* when a term does not resolve
MatchedVerses(body) ==
    LET attempts == [i \in 1..Len(body.terms) |-> ResolveTerm(body.terms[i])]
    IN  IF Len(body.terms) = 0 \/ \E i \in 1..Len(attempts) : attempts[i] = Unresolved
        THEN {}
        ELSE ResultSet(attempts, body.query_verse)

\* the term lists that are `terms` in another order, or `terms` with one of its terms
\* once more, in front or at the end
Rearranged(terms) ==
    {[i \in 1..Len(terms) |-> terms[p[i]]] : p \in Orderings(1..Len(terms))}
        \cup {Append(terms, terms[i]) : i \in 1..Len(terms)}
        \cup {<<terms[i]>> \o terms : i \in 1..Len(terms)}

\* C29: the verse set a search matches and its totalFound are the same for the term
\* list in every order and with a term repeated, whatever the exclude verse and the
\* mode; in full mode the same verses come back when the limit does not cut the list.
C29_TermOrderIrrelevant ==
    (IsSearchOk /\ Len(response.body.terms) >= 1) =>
        /\ Cardinality(MatchedVerses(response.body)) = response.total_found
        /\ \A terms \in Rearranged(response.body.terms) :
              LET other == WithTerms(response.body, terms)
                  resp == SearchWords(other, CHOOSE order \in ResultOrders(other) : TRUE)
              IN  /\ MatchedVerses(other) = MatchedVerses(response.body)
                  /\ resp.total_found = response.total_found
                  /\ response.total_found <= response.limit =>
                        ReturnedVerses(resp) = ReturnedVerses(response)

\* a search of two different terms whose index entries differ matches a verse
C29_Witness ==
    /\ IsTwoTerms
    /\ Len(response.terms_used) = 2
    /\ response.body.terms[1] # response.body.terms[2]
    /\ IndexEntry(response.terms_used[1].search_type, response.terms_used[1].search_key)
          # IndexEntry(response.terms_used[2].search_type, response.terms_used[2].search_key)
    /\ response.total_found >= 1

\* C30: all verses of a full-mode search response carry the same score; and when
\* more verses match than the limit lets through, the score does not settle which
\* are returned: every matched verse is returned by some response to the request and
\* left out by another.
C30_OneScoreForAll ==
    IsFullMode =>
        /\ \A i, j \in 1..Len(response.results) :
              /\ response.scored[i].score = response.scored[j].score
              /\ response.results[i].score = response.results[j].score
        /\ response.total_found > response.limit =>
              \A key \in MatchedVerses(response.body) :
                  /\ \E resp \in Responses(response.body) : key \in ReturnedVerses(resp)
                  /\ \E resp \in Responses(response.body) : key \notin ReturnedVerses(resp)

\* a full-mode search returns two verses with a score that is not zero
C30_Witness ==
    /\ IsFullMode
    /\ Len(response.results) >= 2
    /\ response.scored[1].score # 0
====
